---- MODULE Spec2Model ----
(***************************************************************************)
(* Model of the clang-tidy-visualizer core:                                *)
(*   - ProcessUtils.executeCommand / executeParallel / splitArray          *)
(*   - ConfigManager.getParallelJobs                                       *)
(*   - ClangTidyRunner.runAnalysis / runParallel                           *)
(*   - runClangTidyAnalysis (merge of the batch outputs, failure check)    *)
(*   - TextParser.transformTextToDiagnostics (line state machine)          *)
(*                                                                         *)
(* JavaScript strings that the code inspects character by character are    *)
(* sequences of one-character strings; "\n" is the line separator.         *)
(* The code runs on one thread: the stretch of a handler between two       *)
(* awaits is one atomic action.                                            *)
(***************************************************************************)
EXTENDS Integers, Sequences, FiniteSets, TLC

VARIABLES
    \* ---- scheduler / pipeline --------------------------------------------
    pc,              \* position of the run
    entry,           \* the function the run was entered through
    files,           \* input file list of runParallel / runClangTidyAnalysis
    parallelJobs,    \* config.parallelJobs: "auto" or a number
    cpus,            \* os.cpus().length
    batches,         \* runParallel: const batches
    tasks,           \* executeParallel: tasks
    maxWorkers,      \* executeParallel: maxWorkers
    queue,           \* executeParallel: const queue = [...tasks]
    results,         \* executeParallel: const results
    completedTasks,  \* executeParallel: let completedTasks
    workers,         \* the executeNext() promises: what each one is waiting for
    progress,        \* the calls onProgress(completed, total), in order
    outcome,         \* history: task position -> the result recorded for its process
    ended,           \* history: task position -> the event its process ended with
    started,         \* history: task indexes in the order their process was spawned
    peak,            \* history: largest number of child processes alive at once
    returned,        \* value executeParallel resolved with
    parallelResults, \* value runParallel resolved with
    result,          \* runClangTidyAnalysis: let result
    shown,           \* what runClangTidyAnalysis surfaced to the user
    \* ---- text parser ------------------------------------------------------
    lines,           \* transformTextToDiagnostics: const lines
    pos,             \* number of lines already processed by the for loop
    diagnostics,     \* const diagnostics
    currentDiagnostic, \* index into diagnostics of currentDiagnostic, 0 = null
    matchedWarnings, \* let matchedWarnings
    invalidSeverities, \* let invalidSeverities
    printed,         \* history: the header fields each input line was printed from
    fileSystem,      \* the readable source files: path -> content.split('\n')
    enrichRuns,      \* number of runs of enrichDiagnosticsWithSourceCode so far
    reads,           \* history: the paths handed to fs.readFileSync by the last run
    \* ---- argument builder and report ---------------------------------------
    buildInput,      \* history: what the last call of buildArguments was given
    args,            \* buildArguments: const args, as returned
    reportData,      \* value prepareReportData returned
    \* ---- environment ---------------------------------------------------------
    hung             \* positions of the tasks whose child process never terminates

poolVars == <<pc, entry, files, parallelJobs, cpus, batches, tasks, maxWorkers,
              queue, results, completedTasks, workers, progress, outcome,
              ended, started, peak, returned, parallelResults, result, shown>>
parserVars == <<lines, pos, diagnostics, currentDiagnostic, matchedWarnings,
                invalidSeverities, printed, fileSystem, enrichRuns, reads>>
callVars == <<buildInput, args, reportData>>
envVars == <<hung>>
vars == <<poolVars, parserVars, callVars, envVars>>

\* ---------------------------------------------------------------- bounds
MaxFiles == 3
MaxTasks == 3
MaxWorkers == 2
MaxCpus == 2
MaxJobsSetting == 9
MaxLines == 3
MaxNumber == 10
MaxMessage == 3
MaxBatchFiles == 10
MaxEnrichRuns == 2
MaxArgFiles == 2
MaxHostCores == 9

\* ------------------------------------------------------------- utilities
Min(a, b) == IF a < b THEN a ELSE b
Max(a, b) == IF a > b THEN a ELSE b
Range(s) == {s[i] : i \in 1..Len(s)}

\* Math.ceil(a / b) for a >= 0, b >= 1
Ceil(a, b) == (a + b - 1) \div b

\* Array.prototype.slice(from, to) with 0-based from (inclusive), to (exclusive)
Slice(array, from, to) ==
    SubSeq(array, from + 1, Min(to, Len(array)))

\* Array.prototype.join(sep) on an array of strings
RECURSIVE Join(_, _)
Join(parts, sep) ==
    IF Len(parts) = 0 THEN <<>>
    ELSE IF Len(parts) = 1 THEN parts[1]
    ELSE parts[1] \o sep \o Join(Tail(parts), sep)

\* ------------------------------------------------ the external processes
\* What clang-tidy prints for one finding (one header line, no rule suffix).
DiagText == <<"/", "f", ":", "1", ":", "1", ":", " ", "n", "o", "t", "e", ":", " ", "m">>
NoText == <<>>
ErrText == <<"e">>
SpawnErrorMessage == <<"E", "N", "O", "E", "N", "T">>

\* The events a child process can end with: 'close' with an exit code (null when
\* the child was killed by a signal) and the captured streams, or 'error'.
\* exitCode is <<c>> for an exit code c and <<>> for null.
CloseEvents ==
    [kind : {"close"}, exitCode : {<<0>>}, stdout : {NoText, DiagText}, stderr : {NoText}]
    \cup [kind : {"close"}, exitCode : {<<1>>}, stdout : {NoText, DiagText}, stderr : {ErrText}]
    \cup [kind : {"close"}, exitCode : {<<2>>}, stdout : {DiagText}, stderr : {ErrText}]
    \cup [kind : {"close"}, exitCode : {<<>>}, stdout : {NoText}, stderr : {NoText}]
ErrorEvents ==
    [kind : {"error"}, exitCode : {<<>>}, stdout : {NoText}, stderr : {SpawnErrorMessage}]
NoEvent == [kind |-> "none", exitCode |-> <<>>, stdout |-> NoText, stderr |-> NoText]

\* CloseResult reporting a child that closed without an exit code as failed
CloseResult_signalIsFailure(ev) ==
    [stdout |-> ev.stdout, stderr |-> ev.stderr,
     exitCode |-> IF ev.exitCode = <<>> THEN 1 ELSE ev.exitCode[1]]

\* ProcessUtils.executeCommand, child.on('close'): resolve({stdout, stderr,
\* exitCode: exitCode || 0, duration}).  The wall-clock duration is not modelled.
CloseResult(ev) ==
    [stdout |-> ev.stdout, stderr |-> ev.stderr,
     exitCode |-> IF ev.exitCode = <<>> \/ ev.exitCode = <<0>> THEN 0 ELSE ev.exitCode[1]]

\* executeCommand rejecting on a non-zero exit code as well
executeCommand_rejectNonZero(ev) ==
    IF ev.kind = "error" \/ CloseResult(ev).exitCode # 0
    THEN [rejected |-> TRUE, error |-> ev.stderr, value |-> CloseResult(NoEvent)]
    ELSE [rejected |-> FALSE, error |-> NoText, value |-> CloseResult(ev)]

\* ProcessUtils.executeCommand: the promise settles with the first of the
\* child's events: 'error' rejects with the error, 'close' resolves
executeCommand(ev) ==
    IF ev.kind = "error"
    THEN [rejected |-> TRUE, error |-> ev.stderr, value |-> CloseResult(NoEvent)]
    ELSE [rejected |-> FALSE, error |-> NoText, value |-> CloseResult(ev)]

\* CaughtResult with the failure reported as exit code 0
CaughtResult_zeroExit(errorMsg) ==
    [stdout |-> NoText, stderr |-> errorMsg, exitCode |-> 0]

\* executeNext, catch block: the synthetic result of a rejected executeCommand
CaughtResult(errorMsg) ==
    [stdout |-> NoText, stderr |-> errorMsg, exitCode |-> 1]

\* ------------------------------------------------- ConfigManager, batching
\* getParallelJobs capping the host core count only, not the configured number
getParallelJobs_uncapped(cfg, cpuCount) ==
    LET jobs == IF cfg.auto THEN Min(cpuCount, 8) ELSE cfg.value
    IN  Max(1, jobs)

\* ConfigManager.getParallelJobs
\* (cfg.auto: config.parallelJobs === 'auto'; cfg.value: the configured number)
getParallelJobs(cfg, cpuCount) ==
    LET jobs == IF cfg.auto THEN Min(cpuCount, 8) ELSE cfg.value
    IN  Max(1, Min(jobs, 8))

\* splitFrom with the slice ending one element early
RECURSIVE splitFrom_shortSlice(_, _, _)
splitFrom_shortSlice(array, batchSize, i) ==
    IF i < Len(array)
    THEN <<Slice(array, i, i + batchSize - 1)>>
         \o splitFrom_shortSlice(array, batchSize, i + batchSize)
    ELSE <<>>

\* ProcessUtils.splitArray: for (i = 0; i < array.length; i += batchSize)
RECURSIVE splitFrom(_, _, _)
splitFrom(array, batchSize, i) ==
    IF i < Len(array)
    THEN <<Slice(array, i, i + batchSize)>> \o splitFrom(array, batchSize, i + batchSize)
    ELSE <<>>
splitArray(array, batchSize) == splitFrom(array, batchSize, 0)

\* batchSizeOf with Math.floor for Math.ceil (at least 1)
batchSizeOf_floor(fileList, maxJobs) == Max(1, Len(fileList) \div maxJobs)

\* ClangTidyRunner.runParallel: batchSize and batches
batchSizeOf(fileList, maxJobs) == Ceil(Len(fileList), maxJobs)
batchesOf(fileList, maxJobs) == splitArray(fileList, batchSizeOf(fileList, maxJobs))

\* ClangTidyRunner.runParallel: the task of one batch.  The flags buildArguments
\* puts before the files do not depend on the batch; args keeps the files.
taskOf(batch) == [command |-> "clang-tidy", args |-> batch]

\* ------------------------------------------------------- executeParallel
NoTask == [command |-> "", args |-> <<>>]
Idle == [state |-> "done", taskIndex |-> -1, task |-> NoTask]
NoResult == [stdout |-> NoText, stderr |-> NoText, exitCode |-> -1]

\* executeNextHead with `if` for `while`: a worker that has run a task returns
executeNextHead_once(st, w, totalTasks) ==
    IF Len(st.queue) > 0 /\ st.workers[w].state # "awaiting"
    THEN [queue |-> Tail(st.queue),
          workers |-> [st.workers EXCEPT ![w] =
                          [state |-> "awaiting",
                           taskIndex |-> totalTasks - Len(st.queue),
                           task |-> Head(st.queue)]],
          started |-> Append(st.started, Head(st.queue))]
    ELSE [st EXCEPT !.workers[w] = Idle]

\* executeNextHead computing taskIndex after queue.shift()
executeNextHead_indexAfterShift(st, w, totalTasks) ==
    IF Len(st.queue) > 0
    THEN [queue |-> Tail(st.queue),
          workers |-> [st.workers EXCEPT ![w] =
                          [state |-> "awaiting",
                           taskIndex |-> totalTasks - Len(Tail(st.queue)),
                           task |-> Head(st.queue)]],
          started |-> Append(st.started, Head(st.queue))]
    ELSE [st EXCEPT !.workers[w] = Idle]

\* executeNext from the loop test to the await (or to its return): one worker
\* takes the next task off the shared queue and spawns its process.
executeNextHead(st, w, totalTasks) ==
    IF Len(st.queue) > 0
    THEN LET taskIndex == totalTasks - Len(st.queue)
             task == Head(st.queue)
         IN  [queue |-> Tail(st.queue),
              workers |-> [st.workers EXCEPT ![w] =
                              [state |-> "awaiting", taskIndex |-> taskIndex, task |-> task]],
              started |-> Append(st.started, task)]
    ELSE [st EXCEPT !.workers[w] = Idle]

\* for (let i = 0; i < actualWorkers; i++) workers.add(executeNext())
RECURSIVE launchWorkers(_, _, _, _)
launchWorkers(st, i, actualWorkers, totalTasks) ==
    IF i < actualWorkers
    THEN launchWorkers(executeNextHead(st, i + 1, totalTasks), i + 1, actualWorkers, totalTasks)
    ELSE st

\* actualWorkersOf without the Math.min against the task count
actualWorkersOf_noMin(taskList, workerLimit) == workerLimit

actualWorkersOf(taskList, workerLimit) == Min(workerLimit, Len(taskList))

Alive(ws) == Cardinality({w \in DOMAIN ws : ws[w].state = "awaiting"})

\* Position in the input list of the task a worker holds.
TaskPosition(task) == CHOOSE i \in 1..Len(tasks) : tasks[i] = task

\* the queue, the workers and the spawn history as one record, and their update
poolNow == [queue |-> queue, workers |-> workers, started |-> started]
poolBecomes(st) ==
    /\ queue' = st.queue
    /\ workers' = st.workers
    /\ started' = st.started
    /\ peak' = Max(peak, Alive(st.workers))

\* executeParallel from its first line to `await Promise.all(workers)`
startPool(taskList, workerLimit) ==
    /\ tasks' = taskList
    /\ maxWorkers' = workerLimit
    /\ results' = <<>>
    /\ completedTasks' = 0
    /\ poolBecomes(launchWorkers([queue |-> taskList,
                                  workers |-> [w \in 1..actualWorkersOf(taskList, workerLimit) |-> Idle],
                                  started |-> <<>>],
                                 0, actualWorkersOf(taskList, workerLimit), Len(taskList)))
    /\ progress' = <<>>
    /\ outcome' = [i \in 1..Len(taskList) |-> NoResult]
    /\ ended' = [i \in 1..Len(taskList) |-> NoEvent]
    /\ pc' = "pool"

\* executeNext, try/catch: the result pushed for the event the child ended with
resultOf(ev) ==
    IF executeCommand(ev).rejected
    THEN CaughtResult(executeCommand(ev).error)
    ELSE executeCommand(ev).value

\* resumeWorker with the progress report inside the try block: a failed task
\* is counted but not reported
resumeWorker_progressInTry(w, ev) ==
    /\ results' = Append(results, resultOf(ev))
    /\ completedTasks' = completedTasks + 1
    /\ progress' = IF ev.kind = "close"
                   THEN Append(progress, <<completedTasks + 1, Len(tasks)>>)
                   ELSE progress
    /\ outcome' = [outcome EXCEPT ![TaskPosition(workers[w].task)] = resultOf(ev)]
    /\ ended' = [ended EXCEPT ![TaskPosition(workers[w].task)] = ev]
    /\ poolBecomes(executeNextHead(poolNow, w, Len(tasks)))

\* The process of worker w ends with event ev; the worker resumes after its
\* await: try/catch pushes a result, finally counts and reports progress,
\* and the while loop takes the next task or ends.
resumeWorker(w, ev) ==
    /\ results' = Append(results, resultOf(ev))
    /\ completedTasks' = completedTasks + 1
    /\ progress' = Append(progress, <<completedTasks + 1, Len(tasks)>>)
    /\ outcome' = [outcome EXCEPT ![TaskPosition(workers[w].task)] = resultOf(ev)]
    /\ ended' = [ended EXCEPT ![TaskPosition(workers[w].task)] = ev]
    /\ poolBecomes(executeNextHead(poolNow, w, Len(tasks)))

\* ------------------------------------------------------------ characters
LowerCase == <<"a", "b", "c", "d", "e", "f", "g", "h", "i", "j", "k", "l", "m",
               "n", "o", "p", "q", "r", "s", "t", "u", "v", "w", "x", "y", "z">>
UpperCase == <<"A", "B", "C", "D", "E", "F", "G", "H", "I", "J", "K", "L", "M",
               "N", "O", "P", "Q", "R", "S", "T", "U", "V", "W", "X", "Y", "Z">>
Digits == <<"0", "1", "2", "3", "4", "5", "6", "7", "8", "9">>

IsLetter(c) == c \in Range(LowerCase) \cup Range(UpperCase)    \* [a-zA-Z]
IsDigit(c) == c \in Range(Digits)                              \* \d
IsSpace(c) == c \in {" ", "\t", "\r"}                          \* \s within a line
IsSlash(c) == c \in {"/", "\\"}                                \* [\/\\]
NotColon(c) == c # ":" /\ c # "\n"                             \* [^:\n]
NotCloseBracket(c) == c # "]"                                  \* [^\]]

\* String.prototype.toLowerCase
lowerChar(c) ==
    IF c \in Range(UpperCase)
    THEN LowerCase[CHOOSE i \in 1..Len(UpperCase) : UpperCase[i] = c]
    ELSE c
toLowerCase(str) == [i \in 1..Len(str) |-> lowerChar(str[i])]

\* parseInt(str, 10) of a string of digits
digitValue(c) == (CHOOSE i \in 1..Len(Digits) : Digits[i] = c) - 1
RECURSIVE parseInt(_)
parseInt(str) ==
    IF Len(str) = 0 THEN 0
    ELSE 10 * parseInt(SubSeq(str, 1, Len(str) - 1)) + digitValue(str[Len(str)])

\* The character classes of the regular expressions, by name
InClass(c, class) ==
    CASE class = "\\s" -> IsSpace(c)
      [] class = "\\d" -> IsDigit(c)
      [] class = "[a-zA-Z]" -> IsLetter(c)
      [] class = "[^:\\n]" -> NotColon(c)
      [] class = "[^\\]]" -> NotCloseBracket(c)

\* Last index j >= i - 1 such that every character of str[i..j] is in the class:
\* the end of a greedy run class+ or class* starting at i.
SpanEnd(str, i, class) ==
    LET stops == {k \in i..Len(str) : ~InClass(str[k], class)}
    IN  IF stops = {} THEN Len(str)
        ELSE (CHOOSE k \in stops : \A m \in stops : k <= m) - 1

\* String.prototype.trim
trim(str) ==
    LET keep == {k \in 1..Len(str) : ~IsSpace(str[k])}
    IN  IF keep = {} THEN <<>>
        ELSE SubSeq(str, CHOOSE k \in keep : \A m \in keep : k <= m,
                         CHOOSE k \in keep : \A m \in keep : k >= m)

\* String.prototype.includes for a single character
includes(str, c) == \E k \in 1..Len(str) : str[k] = c

\* String.prototype.split(sep) for a one-character separator
RECURSIVE split(_, _)
split(str, sep) ==
    LET hits == {k \in 1..Len(str) : str[k] = sep}
    IN  IF hits = {} THEN <<str>>
        ELSE LET k == CHOOSE h \in hits : \A m \in hits : h <= m
             IN  <<SubSeq(str, 1, k - 1)>> \o split(SubSeq(str, k + 1, Len(str)), sep)

\* ------------------------------------------------------- the header regex
\* An optional value (a capture group, an optional field): <<>> when absent,
\* <<v>> when present.
NoMatch == [matched |-> FALSE]

\* (?:\s+\[([^\]]+)\])?$ applied to a whole remainder: whitespace, "[", one or
\* more characters other than "]", and "]" as the last character.
ruleGroup(sfx, w, e) ==
    IF /\ w >= 1
       /\ w + 1 <= Len(sfx) /\ sfx[w + 1] = "["
       /\ e >= w + 2
       /\ e + 1 = Len(sfx)
    THEN <<SubSeq(sfx, w + 2, e)>>
    ELSE <<>>
ruleAfterSpace(sfx, w) == ruleGroup(sfx, w, SpanEnd(sfx, w + 2, "[^\\]]"))
ruleSuffix(sfx) == ruleAfterSpace(sfx, SpanEnd(sfx, 1, "\\s"))

\* the groups 5 and 6 when the message takes the first m characters of rest;
\* an unmatched rule group is undefined and `checkName = ""` defaults it
splitMessage(rest, m) ==
    [message |-> SubSeq(rest, 1, m),
     checkName |-> IF m = Len(rest) THEN <<>> ELSE ruleSuffix(SubSeq(rest, m + 1, Len(rest)))[1]]

messageFits(rest) ==
    {m \in 1..Len(rest) :
        \/ m = Len(rest)
        \/ ruleSuffix(SubSeq(rest, m + 1, Len(rest))) # <<>>}

\* ([^\n]+?)(?:\s+\[([^\]]+)\])?$ applied to the text after the severity's
\* separator: the lazy message is the shortest non-empty prefix that leaves
\* nothing, or a rule suffix, up to the end of the line.
messageAndRule(rest) ==
    splitMessage(rest, CHOOSE k \in messageFits(rest) : \A j \in messageFits(rest) : k <= j)

\* line.match(warningRegex) with
\* /^((?:[a-zA-Z]:)?[\/\\][^:\n]+):(\d+):(\d+):\s+([a-zA-Z]+):\s+([^\n]+?)(?:\s+\[([^\]]+)\])?$/
\* The groups of a line whose parts end at the given positions: p0 the start of
\* [\/\\], p1 the end of the path, l1 of the line number, c1 of the column,
\* w1 of the first \s+, s1 of the severity, m0 of the second \s+.
headerGroups(line, p0, p1, l1, c1, w1, s1, m0) ==
    IF /\ p0 <= Len(line) /\ IsSlash(line[p0])
       /\ p1 >= p0 + 1
       /\ p1 + 1 <= Len(line) /\ line[p1 + 1] = ":"
       /\ l1 >= p1 + 2
       /\ l1 + 1 <= Len(line) /\ line[l1 + 1] = ":"
       /\ c1 >= l1 + 2
       /\ c1 + 1 <= Len(line) /\ line[c1 + 1] = ":"
       /\ w1 >= c1 + 2
       /\ s1 >= w1 + 1
       /\ s1 + 1 <= Len(line) /\ line[s1 + 1] = ":"
       /\ m0 >= s1 + 2
    THEN [matched |-> TRUE,
          filePath |-> SubSeq(line, 1, p1),
          lineStr |-> SubSeq(line, p1 + 2, l1),
          columnStr |-> SubSeq(line, l1 + 2, c1),
          severityStr |-> SubSeq(line, w1 + 1, s1),
          message |-> messageAndRule(SubSeq(line, m0 + 1, Len(line))).message,
          checkName |-> messageAndRule(SubSeq(line, m0 + 1, Len(line))).checkName]
    ELSE NoMatch

\* the second \s+ is greedy and gives one character back when nothing would be
\* left for the message
afterSeverity(line, p0, p1, l1, c1, w1, s1, w2) ==
    headerGroups(line, p0, p1, l1, c1, w1, s1, IF w2 = Len(line) THEN w2 - 1 ELSE w2)
afterFirstSpace(line, p0, p1, l1, c1, w1, s1) ==
    afterSeverity(line, p0, p1, l1, c1, w1, s1, SpanEnd(line, s1 + 2, "\\s"))
afterColumn(line, p0, p1, l1, c1, w1) ==
    afterFirstSpace(line, p0, p1, l1, c1, w1, SpanEnd(line, w1 + 1, "[a-zA-Z]"))
afterLineNumber(line, p0, p1, l1, c1) ==
    afterColumn(line, p0, p1, l1, c1, SpanEnd(line, c1 + 2, "\\s"))
afterPath(line, p0, p1, l1) ==
    afterLineNumber(line, p0, p1, l1, SpanEnd(line, l1 + 2, "\\d"))
afterDrive(line, p0, p1) ==
    afterPath(line, p0, p1, SpanEnd(line, p1 + 2, "\\d"))
pathFrom(line, p0) ==
    afterDrive(line, p0, SpanEnd(line, p0 + 1, "[^:\\n]"))
matchWarning(line) ==
    pathFrom(line, IF Len(line) >= 2 /\ IsLetter(line[1]) /\ line[2] = ":" THEN 3 ELSE 1)

\* TextParser.validateSeverity
validSeverities ==
    {<<"e", "r", "r", "o", "r">>, <<"w", "a", "r", "n", "i", "n", "g">>,
     <<"n", "o", "t", "e">>, <<"f", "a", "t", "a", "l">>}
\* validateSeverity accepting every token
validateSeverity_any(severity) == TRUE

validateSeverity(severity) == severity \in validSeverities


\* ------------------------------------------ transformTextToDiagnostics
\* /^\s{3}\d+\s+\|/
codeLineShape(line, d, w) ==
    /\ Len(line) >= 3
    /\ IsSpace(line[1]) /\ IsSpace(line[2]) /\ IsSpace(line[3])
    /\ d >= 4
    /\ w >= d + 1
    /\ w + 1 <= Len(line) /\ line[w + 1] = "|"
codeLineDigits(line, d) == codeLineShape(line, d, SpanEnd(line, d + 1, "\\s"))
isCodeLine(line) == codeLineDigits(line, SpanEnd(line, 4, "\\d"))

\* /^\s+\|/
detailLineShape(line, w) == w >= 1 /\ w + 1 <= Len(line) /\ line[w + 1] = "|"
isDiagnosticDetailLine(line) == detailLineShape(line, SpanEnd(line, 1, "\\s"))

\* line.split('|').pop()?.trim() || line
orLine(value, line) == IF value = <<>> THEN line ELSE value
pop(parts) == parts[Len(parts)]
codePart(line) == orLine(trim(pop(split(line, "|"))), line)

\* the object literal pushed for an accepted header
newDiagnostic(m) ==
    [filePath |-> m.filePath,
     line |-> parseInt(m.lineStr),
     column |-> parseInt(m.columnStr),
     severity |-> toLowerCase(m.severityStr),
     message |-> trim(m.message),
     checkName |-> m.checkName,
     codeLineFull |-> <<>>,
     caretLine |-> <<>>,
     fixSuggestion |-> <<>>]

\* attachLine with a fix suggestion line replacing the earlier ones
attachLine_replaceFix(st, cur, line) ==
    IF isCodeLine(line) \/ isDiagnosticDetailLine(line)
    THEN IF isCodeLine(line)
         THEN [st EXCEPT !.diagnostics[cur].codeLineFull = <<codePart(line)>>]
         ELSE IF includes(trim(line), "^")
              THEN [st EXCEPT !.diagnostics[cur].caretLine = <<line>>]
              ELSE [st EXCEPT !.diagnostics[cur].fixSuggestion = <<line>>]
    ELSE [st EXCEPT !.currentDiagnostic = 0]

\* attachLine writing to the first diagnostic of the list, not to the current one
attachLine_first(st, cur, line) ==
    IF isCodeLine(line) \/ isDiagnosticDetailLine(line)
    THEN IF isCodeLine(line)
         THEN [st EXCEPT !.diagnostics[1].codeLineFull = <<codePart(line)>>]
         ELSE IF includes(trim(line), "^")
              THEN [st EXCEPT !.diagnostics[1].caretLine = <<line>>]
              ELSE IF /\ st.diagnostics[1].fixSuggestion # <<>>
                      /\ st.diagnostics[1].fixSuggestion[1] # <<>>
                   THEN [st EXCEPT !.diagnostics[1].fixSuggestion = <<@[1] \o <<"\n">> \o line>>]
                   ELSE [st EXCEPT !.diagnostics[1].fixSuggestion = <<line>>]
    ELSE [st EXCEPT !.currentDiagnostic = 0]

\* attachLine without the reset on a line that is no part of the diagnostic
attachLine_noReset(st, cur, line) ==
    IF isCodeLine(line) \/ isDiagnosticDetailLine(line)
    THEN IF isCodeLine(line)
         THEN [st EXCEPT !.diagnostics[cur].codeLineFull = <<codePart(line)>>]
         ELSE IF includes(trim(line), "^")
              THEN [st EXCEPT !.diagnostics[cur].caretLine = <<line>>]
              ELSE IF /\ st.diagnostics[cur].fixSuggestion # <<>>
                      /\ st.diagnostics[cur].fixSuggestion[1] # <<>>
                   THEN [st EXCEPT !.diagnostics[cur].fixSuggestion = <<@[1] \o <<"\n">> \o line>>]
                   ELSE [st EXCEPT !.diagnostics[cur].fixSuggestion = <<line>>]
    ELSE st

\* the else-if branch: a non-header line while currentDiagnostic (diagnostics[cur])
\* is set
attachLine(st, cur, line) ==
    IF isCodeLine(line) \/ isDiagnosticDetailLine(line)
    THEN IF isCodeLine(line)
         THEN [st EXCEPT !.diagnostics[cur].codeLineFull = <<codePart(line)>>]
         ELSE IF includes(trim(line), "^")
              THEN [st EXCEPT !.diagnostics[cur].caretLine = <<line>>]
              ELSE IF /\ st.diagnostics[cur].fixSuggestion # <<>>
                      /\ st.diagnostics[cur].fixSuggestion[1] # <<>>
                   THEN [st EXCEPT !.diagnostics[cur].fixSuggestion = <<@[1] \o <<"\n">> \o line>>]
                   ELSE [st EXCEPT !.diagnostics[cur].fixSuggestion = <<line>>]
    ELSE [st EXCEPT !.currentDiagnostic = 0]

\* classifyLine keeping the current diagnostic when a header is rejected
classifyLine_rejectKeeps(st, line, warningMatch) ==
    IF warningMatch.matched
    THEN IF ~validateSeverity(toLowerCase(warningMatch.severityStr))
         THEN [st EXCEPT !.matchedWarnings = @ + 1,
                         !.invalidSeverities = @ + 1]
         ELSE [st EXCEPT !.matchedWarnings = @ + 1,
                         !.diagnostics = Append(@, newDiagnostic(warningMatch)),
                         !.currentDiagnostic = Len(st.diagnostics) + 1]
    ELSE IF st.currentDiagnostic # 0
         THEN attachLine(st, st.currentDiagnostic, line)
         ELSE st

\* classifyLine putting a new diagnostic at the front of the list (unshift)
classifyLine_unshift(st, line, warningMatch) ==
    IF warningMatch.matched
    THEN IF ~validateSeverity(toLowerCase(warningMatch.severityStr))
         THEN [st EXCEPT !.matchedWarnings = @ + 1,
                         !.invalidSeverities = @ + 1,
                         !.currentDiagnostic = 0]
         ELSE [st EXCEPT !.matchedWarnings = @ + 1,
                         !.diagnostics = <<newDiagnostic(warningMatch)>> \o @,
                         !.currentDiagnostic = 1]
    ELSE IF st.currentDiagnostic # 0
         THEN attachLine(st, st.currentDiagnostic, line)
         ELSE st

\* classifyLine with the context branch tested before the header match
classifyLine_contextFirst(st, line, warningMatch) ==
    IF st.currentDiagnostic # 0
    THEN attachLine(st, st.currentDiagnostic, line)
    ELSE IF warningMatch.matched
         THEN IF ~validateSeverity(toLowerCase(warningMatch.severityStr))
              THEN [st EXCEPT !.matchedWarnings = @ + 1,
                              !.invalidSeverities = @ + 1,
                              !.currentDiagnostic = 0]
              ELSE [st EXCEPT !.matchedWarnings = @ + 1,
                              !.diagnostics = Append(@, newDiagnostic(warningMatch)),
                              !.currentDiagnostic = Len(st.diagnostics) + 1]
         ELSE st

\* the body of the loop for a non-blank line, given line.match(warningRegex)
classifyLine(st, line, warningMatch) ==
    IF warningMatch.matched
    THEN IF ~validateSeverity(toLowerCase(warningMatch.severityStr))
         THEN [st EXCEPT !.matchedWarnings = @ + 1,
                         !.invalidSeverities = @ + 1,
                         !.currentDiagnostic = 0]
         ELSE [st EXCEPT !.matchedWarnings = @ + 1,
                         !.diagnostics = Append(@, newDiagnostic(warningMatch)),
                         !.currentDiagnostic = Len(st.diagnostics) + 1]
    ELSE IF st.currentDiagnostic # 0
         THEN attachLine(st, st.currentDiagnostic, line)
         ELSE st

\* stepLine without the reset on a blank line
stepLine_blankKeeps(st, line) ==
    IF trim(line) = <<>>
    THEN st
    ELSE classifyLine(st, line, matchWarning(line))

\* one iteration of `for (const line of lines)`
stepLine(st, line) ==
    IF trim(line) = <<>>
    THEN [st EXCEPT !.currentDiagnostic = 0]
    ELSE classifyLine(st, line, matchWarning(line))

\* ------------------------------------------ enrichDiagnosticsWithSourceCode
\* no file can be read: fs.readFileSync throws for every path
NoFiles == [filePath \in {} |-> <<>>]

\* !value for an optional string: undefined and '' are falsy
falsy(value) == value = <<>> \/ value[1] = <<>>

\* ' '.repeat(position)
repeat(c, count) == [k \in 1..count |-> c]

\* enrichDiagnostic without the tests for values already set
enrichDiagnostic_overwrite(diagnostic, fileLines) ==
    IF diagnostic.line - 1 >= 0 /\ diagnostic.line - 1 < Len(fileLines)
    THEN [diagnostic EXCEPT
             !.codeLineFull = <<fileLines[diagnostic.line]>>,
             !.caretLine = <<repeat(" ", Max(0, diagnostic.column - 1)) \o <<"^">>>>]
    ELSE diagnostic

\* enrichDiagnostic with the caret one column to the right
enrichDiagnostic_caretAtColumn(diagnostic, fileLines) ==
    IF diagnostic.line - 1 >= 0 /\ diagnostic.line - 1 < Len(fileLines)
    THEN [diagnostic EXCEPT
             !.codeLineFull = IF falsy(@) THEN <<fileLines[diagnostic.line]>> ELSE @,
             !.caretLine = IF falsy(@)
                           THEN <<repeat(" ", Max(0, diagnostic.column)) \o <<"^">>>>
                           ELSE @]
    ELSE diagnostic

\* the body of `for (const diagnostic of fileDiagnostics)`; fileLines[lineIndex]
\* is the 1-based element diagnostic.line of the sequence
enrichDiagnostic(diagnostic, fileLines) ==
    IF diagnostic.line - 1 >= 0 /\ diagnostic.line - 1 < Len(fileLines)
    THEN [diagnostic EXCEPT
             !.codeLineFull = IF falsy(@) THEN <<fileLines[diagnostic.line]>> ELSE @,
             !.caretLine = IF falsy(@)
                           THEN <<repeat(" ", Max(0, diagnostic.column - 1)) \o <<"^">>>>
                           ELSE @]
    ELSE diagnostic

\* pathsOf with one entry for every diagnostic: no grouping by file
pathsOf_perDiagnostic(diags) == [i \in 1..Len(diags) |-> diags[i].filePath]

\* the keys of diagnosticsByFile, in insertion order
RECURSIVE pathsOf(_)
pathsOf(diags) ==
    IF Len(diags) = 0 THEN <<>>
    ELSE IF diags[Len(diags)].filePath \in Range(pathsOf(SubSeq(diags, 1, Len(diags) - 1)))
         THEN pathsOf(SubSeq(diags, 1, Len(diags) - 1))
         ELSE Append(pathsOf(SubSeq(diags, 1, Len(diags) - 1)), diags[Len(diags)].filePath)

\* the try block for one file that was read: its diagnostics are updated in place
enrichFile(diags, filePath, fileLines) ==
    [i \in 1..Len(diags) |->
        IF diags[i].filePath = filePath
        THEN enrichDiagnostic(diags[i], fileLines)
        ELSE diags[i]]

\* enrichFiles with the try/catch around the loop: the first failure ends it
RECURSIVE enrichFiles_abort(_, _, _)
enrichFiles_abort(diags, paths, fs) ==
    IF Len(paths) = 0 THEN diags
    ELSE IF Head(paths) \in DOMAIN fs
         THEN enrichFiles_abort(enrichFile(diags, Head(paths), fs[Head(paths)]), Tail(paths), fs)
         ELSE diags

\* `for (const [filePath, fileDiagnostics] of diagnosticsByFile)`: a file that
\* cannot be read is logged and skipped (catch: continue)
RECURSIVE enrichFiles(_, _, _)
enrichFiles(diags, paths, fs) ==
    IF Len(paths) = 0 THEN diags
    ELSE IF Head(paths) \in DOMAIN fs
         THEN enrichFiles(enrichFile(diags, Head(paths), fs[Head(paths)]), Tail(paths), fs)
         ELSE enrichFiles(diags, Tail(paths), fs)

enrichDiagnosticsWithSourceCode(diags, fs) == enrichFiles(diags, pathsOf(diags), fs)

\* parserStart with a diagnostic left over from an earlier parse
parserStart_stale ==
    [diagnostics |-> <<[filePath |-> <<"/", "f">>, line |-> 1, column |-> 1,
                        severity |-> <<"n", "o", "t", "e">>, message |-> <<"m">>,
                        checkName |-> <<>>, codeLineFull |-> <<>>, caretLine |-> <<>>,
                        fixSuggestion |-> <<>>]>>,
     currentDiagnostic |-> 0, matchedWarnings |-> 0, invalidSeverities |-> 0]

parserStart ==
    [diagnostics |-> <<>>, currentDiagnostic |-> 0,
     matchedWarnings |-> 0, invalidSeverities |-> 0]

RECURSIVE parseLines(_, _)
parseLines(st, ls) ==
    IF Len(ls) = 0 THEN st ELSE parseLines(stepLine(st, Head(ls)), Tail(ls))

\* TextParser.parseClangTidyText: the diagnostics of the line pass (the source
\* enrichment that follows adds context to them and neither adds nor removes one)
parseClangTidyText(text) ==
    parseLines(parserStart, split(text, "\n")).diagnostics


\* ---------------------------------------------------------------------
\* ClangTidyRunner.buildArguments
\* An argument is a string: a sequence of pieces, the flag literals of the
\* code being one piece each and every other character a piece of its own.
\* options: the RunOptions of the call; world: the workspace folder, the
\* result of fs.existsSync on its .clang-tidy and the ConfigManager getters.
\* An empty string stands for undefined as well: the code tests truthiness.
\* ---------------------------------------------------------------------
\* a string that is undefined or ''
emptyString(str) == str = <<>>

\* a || b on strings
orElse(a, b) == IF emptyString(a) THEN b ELSE a

\* path.join(workspaceRoot, '.clang-tidy')
clangTidyConfigPath(world) == world.workspaceRoot \o <<"/", ".clang-tidy">>

\* the config file is looked for only when a workspace folder is open
usesConfigFile(world) == ~emptyString(world.workspaceRoot) /\ world.configExists

\* selectorArgs pushing the -checks flag next to the --config-file pointer
selectorArgs_both(options, world) ==
    (IF usesConfigFile(world)
     THEN <<(<<"--config-file=">> \o clangTidyConfigPath(world))>>
     ELSE <<>>)
    \o <<(<<"-checks=">> \o orElse(orElse(options.checks, world.checks), <<"*">>))>>

\* lines 103-125: --config-file or -checks
selectorArgs(options, world) ==
    IF usesConfigFile(world)
    THEN <<(<<"--config-file=">> \o clangTidyConfigPath(world))>>
    ELSE <<(<<"-checks=">> \o orElse(orElse(options.checks, world.checks), <<"*">>))>>

\* headerFilterArgs defaulting to the workspace root without asking for one
headerFilterArgs_rootless(options, world) ==
    IF ~emptyString(orElse(options.headerFilter, world.headerFilter))
    THEN <<(<<"-header-filter=">> \o orElse(options.headerFilter, world.headerFilter))>>
    ELSE IF ~usesConfigFile(world)
         THEN <<(<<"-header-filter=">> \o world.workspaceRoot)>>
         ELSE <<>>

\* lines 127-139: -header-filter
headerFilterArgs(options, world) ==
    IF ~emptyString(orElse(options.headerFilter, world.headerFilter))
    THEN <<(<<"-header-filter=">> \o orElse(options.headerFilter, world.headerFilter))>>
    ELSE IF ~usesConfigFile(world) /\ ~emptyString(world.workspaceRoot)
         THEN <<(<<"-header-filter=">> \o world.workspaceRoot)>>
         ELSE <<>>

\* lines 141-144
fixArgs(options) == IF options.fix THEN <<(<<"-fix">>)>> ELSE <<>>

\* lines 146-154: -p
compileCommandsArgs(world) ==
    IF ~emptyString(world.compileCommandsPath)
    THEN <<(<<"-p=">> \o world.compileCommandsPath)>>
    ELSE <<>>

\* line 157: options.extraArgs || getExtraArgs(); an array, even [], is truthy
extraArgsOf(options, world) ==
    IF options.extraArgs.given THEN options.extraArgs.list ELSE world.extraArgs

\* index of the last occurrence of the piece c in str, 0 when there is none
lastIndexOf(str, c) ==
    IF \E i \in 1..Len(str) : str[i] = c
    THEN CHOOSE i \in 1..Len(str) : str[i] = c /\ \A j \in (i + 1)..Len(str) : str[j] # c
    ELSE 0

\* the last path component
basename(file) == Slice(file, lastIndexOf(file, "/"), Len(file))

\* path.extname of a base name: from its last dot on; '' when it has no dot,
\* when the dot is its first character, and for '..'
extOfBase(base) ==
    IF lastIndexOf(base, ".") <= 1 \/ base = <<".", ".">>
    THEN <<>>
    ELSE Slice(base, lastIndexOf(base, ".") - 1, Len(base))

extname(file) == extOfBase(basename(file))

\* line 165: the recognized extensions
cppExtensions ==
    { <<".", "c", "p", "p">>, <<".", "h", "p", "p">>, <<".", "c", "c">>,
      <<".", "h", "h">>, <<".", "c", "x", "x">>, <<".", "h", "x", "x">>,
      <<".", "c">>, <<".", "h">> }

isCppFile_caseSensitive(file) == extname(file) \in cppExtensions

\* lines 163-166: the filter callback
isCppFile(file) == toLowerCase(extname(file)) \in cppExtensions

\* files.filter(...)
cppFiles(fileList) == SelectSeq(fileList, isCppFile)

\* buildArguments with the positional files put before the extra arguments
buildArguments_filesFirst(fileList, options, world) ==
    selectorArgs(options, world) \o headerFilterArgs(options, world)
        \o fixArgs(options) \o compileCommandsArgs(world)
        \o cppFiles(fileList) \o extraArgsOf(options, world)

\* lines 100-170
buildArguments(fileList, options, world) ==
    selectorArgs(options, world) \o headerFilterArgs(options, world)
        \o fixArgs(options) \o compileCommandsArgs(world)
        \o extraArgsOf(options, world) \o cppFiles(fileList)

\* ---------------------------------------------------------------------
\* ReportData: extension.ts prepareReportData, JsonParser.parseReportData
\* warningsByChecker is a function from rule names to counts; files is the
\* sequence of the groups in the insertion order of their keys.
\* ---------------------------------------------------------------------
\* warningsByChecker[name] = (warningsByChecker[name] || 0) + 1
addCount(counts, name) ==
    [k \in DOMAIN counts \cup {name} |->
        (IF k \in DOMAIN counts THEN counts[k] ELSE 0) + (IF k = name THEN 1 ELSE 0)]

\* prepareReportData, first forEach: if (diag.checkName) count it
RECURSIVE countByChecker(_, _)
countByChecker(diags, n) ==
    IF n = 0 THEN [k \in {} |-> 0]
    ELSE IF emptyString(diags[n].checkName) THEN countByChecker(diags, n - 1)
    ELSE addCount(countByChecker(diags, n - 1), diags[n].checkName)

\* parseReportData: every diagnostic is counted, under '' when it has no rule
RECURSIVE countEveryChecker(_, _)
countEveryChecker(diags, n) ==
    IF n = 0 THEN [k \in {} |-> 0]
    ELSE addCount(countEveryChecker(diags, n - 1), diags[n].checkName)

\* if (!files[diag.filePath]) files[diag.filePath] = []; files[...].push(diag)
addToGroup(groups, diag) ==
    IF \E g \in 1..Len(groups) : groups[g].filePath = diag.filePath
    THEN [g \in 1..Len(groups) |->
            IF groups[g].filePath = diag.filePath
            THEN [groups[g] EXCEPT !.diagnostics = Append(@, diag)]
            ELSE groups[g]]
    ELSE Append(groups, [filePath |-> diag.filePath, diagnostics |-> <<diag>>])

\* the second forEach
RECURSIVE groupByFile(_, _)
groupByFile(diags, n) ==
    IF n = 0 THEN <<>> ELSE addToGroup(groupByFile(diags, n - 1), diags[n])

\* prepareReportData counting the diagnostics without a rule as well
prepareReportData_countsAll(diags, totalFiles) ==
    [built |-> TRUE,
     diagnostics |-> diags,
     totalFilesChecked |-> totalFiles,
     filesWithWarnings |-> Len(groupByFile(diags, Len(diags))),
     totalWarnings |-> Len(diags),
     warningsByChecker |-> countEveryChecker(diags, Len(diags)),
     files |-> groupByFile(diags, Len(diags))]

\* extension.ts prepareReportData(diagnostics, totalFiles)
prepareReportData(diags, totalFiles) ==
    [built |-> TRUE,
     diagnostics |-> diags,
     totalFilesChecked |-> totalFiles,
     filesWithWarnings |-> Len(groupByFile(diags, Len(diags))),
     totalWarnings |-> Len(diags),
     warningsByChecker |-> countByChecker(diags, Len(diags)),
     files |-> groupByFile(diags, Len(diags))]

\* JsonParser.parseReportData(diagnostics)
parseReportData(diags) ==
    [built |-> TRUE,
     diagnostics |-> diags,
     totalFilesChecked |-> Len(groupByFile(diags, Len(diags))),
     filesWithWarnings |-> Len(groupByFile(diags, Len(diags))),
     totalWarnings |-> Len(diags),
     warningsByChecker |-> countEveryChecker(diags, Len(diags)),
     files |-> groupByFile(diags, Len(diags))]

\* ---------------------------------------------------------------------
\* Scheduler and pipeline: the run
\* ---------------------------------------------------------------------
NoRunResult == [rawOutput |-> NoText, errorOutput |-> NoText, exitCode |-> -1]
Auto == [auto |-> TRUE, value |-> 0]
JobSettings == {Auto} \cup {[auto |-> FALSE, value |-> v] : v \in 0..MaxJobsSetting}
FileList(n) == [i \in 1..n |-> i]
TaskList(n) == [i \in 1..n |-> taskOf(<<i>>)]

\* The job settings of the scheduler runs: 'auto' and a number above the cap.
PoolJobSettings == {Auto, [auto |-> FALSE, value |-> MaxJobsSetting]}

\* Everything but the inputs of the run, as it is before the run starts
\* buildArguments and prepareReportData not called yet
NoInput == [called |-> FALSE]
NoReport == [built |-> FALSE]

PoolIdle ==
    /\ pc = "init"
    /\ batches = <<>>
    /\ queue = <<>>
    /\ results = <<>>
    /\ completedTasks = 0
    /\ workers = <<>>
    /\ progress = <<>>
    /\ outcome = <<>>
    /\ ended = <<>>
    /\ started = <<>>
    /\ peak = 0
    /\ returned = <<>>
    /\ parallelResults = <<>>
    /\ result = NoRunResult
    /\ shown = "none"
    /\ buildInput = NoInput
    /\ args = <<>>
    /\ reportData = NoReport

\* every child process terminates
RunIdle ==
    /\ PoolIdle
    /\ hung = {}

RunUnused ==
    /\ entry = "none"
    /\ files = <<>>
    /\ parallelJobs = Auto
    /\ cpus = 1
    /\ tasks = <<>>
    /\ maxWorkers = 0

ParserIdle ==
    /\ pos = 0
    /\ enrichRuns = 0
    /\ reads = <<>>
    /\ diagnostics = <<>>
    /\ currentDiagnostic = 0
    /\ matchedWarnings = 0
    /\ invalidSeverities = 0

ParserUnused ==
    /\ lines = <<>>
    /\ printed = <<>>
    /\ fileSystem = NoFiles

\* The inputs of a run entered through runParallel or runClangTidyAnalysis
FileRun(entries, maxFiles, settings) ==
    /\ entry \in entries
    /\ \E n \in 1..maxFiles : files = FileList(n)
    /\ parallelJobs \in settings
    /\ cpus \in 1..MaxCpus
    /\ ~parallelJobs.auto => cpus = 1
    /\ tasks = <<>>
    /\ maxWorkers = 0

Init ==
    /\ \/ /\ entry = "executeParallel"
          /\ \E n \in 0..MaxTasks : tasks = TaskList(n)
          /\ maxWorkers \in 1..MaxWorkers
          /\ files = <<>>
          /\ parallelJobs = Auto
          /\ cpus = 1
       \/ FileRun({"runParallel", "runClangTidyAnalysis"}, MaxFiles, PoolJobSettings)
    /\ RunIdle
    /\ ParserIdle
    /\ ParserUnused

\* A direct call executeParallel(tasks, maxWorkers, onProgress)
CallExecuteParallel ==
    /\ pc = "init"
    /\ entry = "executeParallel"
    /\ startPool(tasks, maxWorkers)
    /\ UNCHANGED <<entry, files, parallelJobs, cpus, batches, returned,
                   parallelResults, result, shown, parserVars, callVars, envVars>>

\* runParallel(files, options, onProgress) up to its await of executeParallel;
\* runClangTidyAnalysis calls it when files.length > 1.
CallRunParallel ==
    /\ pc = "init"
    /\ \/ entry = "runParallel"
       \/ entry = "runClangTidyAnalysis" /\ Len(files) > 1
    /\ LET maxJobs == getParallelJobs(parallelJobs, cpus)
           bs == batchesOf(files, maxJobs)
       IN  /\ batches' = bs
           /\ startPool([i \in 1..Len(bs) |-> taskOf(bs[i])], maxJobs)
    /\ UNCHANGED <<entry, files, parallelJobs, cpus, returned,
                   parallelResults, result, shown, parserVars, callVars, envVars>>

\* ChildClose with a timeout that kills a child that does not terminate: the
\* child then closes without an exit code
ChildClose_withTimeout ==
    /\ pc = "pool"
    /\ \E w \in DOMAIN workers, ev \in CloseEvents :
          /\ workers[w].state = "awaiting"
          /\ TaskPosition(workers[w].task) \in hung => ev.exitCode = <<>>
          /\ resumeWorker(w, ev)
    /\ UNCHANGED <<pc, entry, files, parallelJobs, cpus, batches, tasks, maxWorkers,
                   returned, parallelResults, result, shown, parserVars, callVars, envVars>>

\* A child of the pool emits 'close': executeCommand resolves
ChildClose ==
    /\ pc = "pool"
    /\ \E w \in DOMAIN workers, ev \in CloseEvents :
          /\ workers[w].state = "awaiting"
          /\ TaskPosition(workers[w].task) \notin hung
          /\ resumeWorker(w, ev)
    /\ UNCHANGED <<pc, entry, files, parallelJobs, cpus, batches, tasks, maxWorkers,
                   returned, parallelResults, result, shown, parserVars, callVars, envVars>>

\* A child of the pool emits 'error': executeCommand rejects
ChildError ==
    /\ pc = "pool"
    /\ \E w \in DOMAIN workers, ev \in ErrorEvents :
          /\ workers[w].state = "awaiting"
          /\ TaskPosition(workers[w].task) \notin hung
          /\ resumeWorker(w, ev)
    /\ UNCHANGED <<pc, entry, files, parallelJobs, cpus, batches, tasks, maxWorkers,
                   returned, parallelResults, result, shown, parserVars, callVars, envVars>>

\* PoolReturn with Promise.race for Promise.all: the first worker to return
\* ends the wait
PoolReturn_anyDone ==
    /\ pc = "pool"
    /\ \/ workers = <<>>
       \/ \E w \in DOMAIN workers : workers[w].state = "done"
    /\ returned' = results
    /\ pc' = "returned"
    /\ UNCHANGED <<entry, files, parallelJobs, cpus, batches, tasks, maxWorkers, queue,
                   results, completedTasks, workers, progress, outcome, ended, started,
                   peak, parallelResults, result, shown, parserVars, callVars, envVars>>

\* await Promise.all(workers) completes; return results
PoolReturn ==
    /\ pc = "pool"
    /\ \A w \in DOMAIN workers : workers[w].state = "done"
    /\ returned' = results
    /\ pc' = "returned"
    /\ UNCHANGED <<entry, files, parallelJobs, cpus, batches, tasks, maxWorkers, queue,
                   results, completedTasks, workers, progress, outcome, ended, started,
                   peak, parallelResults, result, shown, parserVars, callVars, envVars>>

\* runParallel after its await: results.map((result, index) => ({..., files: batches[index]}))
RunParallelReturn ==
    /\ pc = "returned"
    /\ entry \in {"runParallel", "runClangTidyAnalysis"}
    /\ parallelResults' =
          [index \in 1..Len(returned) |->
              [rawOutput |-> returned[index].stdout,
               errorOutput |-> returned[index].stderr,
               exitCode |-> returned[index].exitCode,
               files |-> batches[index]]]
    /\ pc' = "mapped"
    /\ UNCHANGED <<entry, files, parallelJobs, cpus, batches, tasks, maxWorkers, queue,
                   results, completedTasks, workers, progress, outcome, ended, started,
                   peak, returned, result, shown, parserVars, callVars, envVars>>

\* surface with the failure test reduced to `!result.rawOutput`
surface_emptyIsFailure(res) ==
    IF res.rawOutput = <<>>
    THEN "analysisFailed"
    ELSE IF Len(parseClangTidyText(res.rawOutput)) = 0
         THEN "noIssuesFound"
         ELSE "report"

\* runClangTidyAnalysis from `if (result.exitCode !== 0 && !result.rawOutput)` on
surface(res) ==
    IF res.exitCode # 0 /\ res.rawOutput = <<>>
    THEN "analysisFailed"
    ELSE IF Len(parseClangTidyText(res.rawOutput)) = 0
         THEN "noIssuesFound"
         ELSE "report"

\* runClangTidyAnalysis: "Combine results from all batches"
combine(prs) ==
    [rawOutput |-> Join([i \in 1..Len(prs) |-> prs[i].rawOutput], <<"\n">>),
     errorOutput |-> Join([i \in 1..Len(prs) |-> prs[i].errorOutput], <<"\n">>),
     exitCode |-> IF \E i \in 1..Len(prs) : prs[i].exitCode # 0 THEN 1 ELSE 0]

\* runClangTidyAnalysis after `await runner.runParallel(...)`
AnalysisAfterParallel ==
    /\ pc = "mapped"
    /\ entry = "runClangTidyAnalysis"
    /\ result' = combine(parallelResults)
    /\ shown' = surface(combine(parallelResults))
    /\ pc' = "done"
    /\ UNCHANGED <<entry, files, parallelJobs, cpus, batches, tasks, maxWorkers, queue,
                   results, completedTasks, workers, progress, outcome, ended, started,
                   peak, returned, parallelResults, parserVars, callVars, envVars>>

\* runClangTidyAnalysis with one file: runner.runAnalysis spawns the one process
CallRunAnalysis ==
    /\ pc = "init"
    /\ entry = "runClangTidyAnalysis"
    /\ Len(files) <= 1
    /\ pc' = "single"
    /\ ended' = <<NoEvent>>
    /\ UNCHANGED <<entry, files, parallelJobs, cpus, batches, tasks, maxWorkers, queue,
                   results, completedTasks, workers, progress, outcome, started,
                   peak, returned, parallelResults, result, shown, parserVars, callVars, envVars>>

\* runAnalysis: the value it returns for the event its child ends with
runAnalysisResult(ev) ==
    IF ~executeCommand(ev).rejected
    THEN [rawOutput |-> executeCommand(ev).value.stdout,
          errorOutput |-> executeCommand(ev).value.stderr,
          exitCode |-> executeCommand(ev).value.exitCode]
    ELSE [rawOutput |-> NoText, errorOutput |-> executeCommand(ev).error, exitCode |-> 1]

\* The child of runAnalysis emits 'close'; runClangTidyAnalysis goes on
SingleClose ==
    /\ pc = "single"
    /\ \E ev \in CloseEvents :
          /\ ended' = <<ev>>
          /\ result' = runAnalysisResult(ev)
          /\ shown' = surface(runAnalysisResult(ev))
    /\ pc' = "done"
    /\ UNCHANGED <<entry, files, parallelJobs, cpus, batches, tasks, maxWorkers, queue,
                   results, completedTasks, workers, progress, outcome, started,
                   peak, returned, parallelResults, parserVars, callVars, envVars>>

\* The child of runAnalysis emits 'error'; runAnalysis catches the rejection
SingleError ==
    /\ pc = "single"
    /\ \E ev \in ErrorEvents :
          /\ ended' = <<ev>>
          /\ result' = runAnalysisResult(ev)
          /\ shown' = surface(runAnalysisResult(ev))
    /\ pc' = "done"
    /\ UNCHANGED <<entry, files, parallelJobs, cpus, batches, tasks, maxWorkers, queue,
                   results, completedTasks, workers, progress, outcome, started,
                   peak, returned, parallelResults, parserVars, callVars, envVars>>

Next ==
    \/ CallExecuteParallel
    \/ CallRunParallel
    \/ ChildClose
    \/ ChildError
    \/ PoolReturn
    \/ RunParallelReturn
    \/ AnalysisAfterParallel
    \/ CallRunAnalysis
    \/ SingleClose
    \/ SingleError

Spec == Init /\ [][Next]_vars


\* ---------------------------------------------------------------------
\* Batching alone: runParallel over wider file counts and every job setting
\* ---------------------------------------------------------------------
InitBatch ==
    /\ FileRun({"runParallel"}, MaxBatchFiles, JobSettings)
    /\ RunIdle
    /\ ParserIdle
    /\ ParserUnused

NextBatch == CallRunParallel

SpecBatch == InitBatch /\ [][NextBatch]_vars

\* ---------------------------------------------------------------------
\* The effective job count: runParallel under every configured value
\* ---------------------------------------------------------------------
\* 'auto' on hosts of 1..MaxHostCores cores, and the configured numbers
AllJobSettings ==
    {Auto} \cup {[auto |-> FALSE, value |-> v] : v \in (0 - MaxJobsSetting)..MaxJobsSetting}

InitJobs ==
    /\ entry \in {"runParallel", "runClangTidyAnalysis"}
    /\ \E n \in 1..MaxFiles : files = FileList(n)
    /\ parallelJobs \in AllJobSettings
    /\ cpus \in 1..MaxHostCores
    /\ ~parallelJobs.auto => cpus = 1
    /\ tasks = <<>>
    /\ maxWorkers = 0
    /\ RunIdle
    /\ ParserIdle
    /\ ParserUnused

NextJobs == CallRunParallel

SpecJobs == InitJobs /\ [][NextJobs]_vars

\* ---------------------------------------------------------------------
\* The pool and its children: executeParallel called directly, every child
\* process terminating or one of them never terminating.  A child that can
\* end does end; resolved promises are resumed by the event loop.
\* ---------------------------------------------------------------------
InitPool ==
    /\ entry = "executeParallel"
    /\ \E n \in 0..MaxTasks : tasks = TaskList(n)
    /\ maxWorkers \in 1..MaxWorkers
    /\ hung \in {{}} \cup {{h} : h \in 1..Len(tasks)}
    /\ files = <<>>
    /\ parallelJobs = Auto
    /\ cpus = 1
    /\ PoolIdle
    /\ ParserIdle
    /\ ParserUnused

NextPool ==
    \/ CallExecuteParallel
    \/ ChildClose
    \/ ChildError
    \/ PoolReturn

SpecPool ==
    /\ InitPool
    /\ [][NextPool]_vars
    /\ WF_vars(CallExecuteParallel)
    /\ WF_vars(ChildClose \/ ChildError)
    /\ WF_vars(PoolReturn)

\* ---------------------------------------------------------------------
\* Text parser: the line pass of transformTextToDiagnostics
\* ---------------------------------------------------------------------
\* Lines of tool output (test/parser-test.ts, the extension test suite)
HeaderWithRule == <<"/", "f", ":", "5", ":", "9", ":", " ", "w", "a", "r", "n", "i", "n", "g", ":", " ", "m", " ", "[", "r", "]">>
HeaderNoRule == <<"D", ":", "\\", "f", ":", "1", "0", ":", "1", "2", ":", " ", "e", "r", "r", "o", "r", ":", " ", "m">>
HeaderOddity == <<"/", "f", ":", "5", ":", "9", ":", " ", "o", "d", "d", "i", "t", "y", ":", " ", "m", " ", "[", "r", "]">>
CodeLine == <<" ", " ", " ", "5", " ", "|", " ", "x">>
CaretLine == <<" ", " ", " ", " ", " ", "|", " ", "^", "~">>
FixLine == <<" ", " ", " ", " ", " ", "|", " ", "x">>
SnippetLine == <<" ", " ", " ", " ", "x">>
\* a code line as clang-tidy prints it for a one-digit line number (width 5)
CodeLineWide == <<" ", " ", " ", " ", "5", " ", "|", " ", "x">>
\* a code line whose source text holds a pipe
CodeLinePipe == <<" ", " ", " ", "5", " ", "|", " ", "a", "|", "b">>
\* a range marker without a caret
TildeLine == <<" ", " ", " ", " ", " ", "|", " ", "~", "~">>
FixLineNext == <<" ", " ", " ", " ", " ", "|", " ", "y">>
BlankLine == <<>>
SpacesLine == <<" ", " ">>

LinePool ==
    {HeaderWithRule, HeaderNoRule, HeaderOddity, CodeLine, CaretLine, FixLine,
     SnippetLine, BlankLine, SpacesLine, CodeLineWide, CodeLinePipe, TildeLine,
     FixLineNext}

InitParser ==
    /\ \E n \in 0..MaxLines : lines \in [1..n -> LinePool]
    /\ printed = <<>>
    /\ fileSystem = NoFiles
    /\ ParserIdle
    /\ RunIdle
    /\ RunUnused

\* the loop's variables as one record, and their update
parserNow ==
    [diagnostics |-> diagnostics, currentDiagnostic |-> currentDiagnostic,
     matchedWarnings |-> matchedWarnings, invalidSeverities |-> invalidSeverities]
parserBecomes(st) ==
    /\ diagnostics' = st.diagnostics
    /\ currentDiagnostic' = st.currentDiagnostic
    /\ matchedWarnings' = st.matchedWarnings
    /\ invalidSeverities' = st.invalidSeverities

\* One iteration of the for loop over lines
ParseLine ==
    /\ pos < Len(lines)
    /\ parserBecomes(stepLine(parserNow, lines[pos + 1]))
    /\ pos' = pos + 1
    /\ UNCHANGED <<lines, printed, fileSystem, enrichRuns, reads, poolVars, callVars, envVars>>

NextParser == ParseLine

SpecParser == InitParser /\ [][NextParser]_vars

\* ---------------------------------------------------------------------
\* The parser followed by the source enrichment, over a small file system
\* ---------------------------------------------------------------------
PathF == <<"/", "f">>
PathD == <<"D", ":", "\\", "f">>
HeaderLineZero == <<"/", "f", ":", "0", ":", "1", ":", " ", "n", "o", "t", "e", ":", " ", "m">>
EnrichLinePool == {HeaderWithRule, HeaderNoRule, HeaderLineZero, CodeLine, CaretLine}

\* content.split('\n') of a file of n - 1 lines that ends with a newline
FileOf(n) == [k \in 1..n |-> IF k = n THEN <<>> ELSE <<"c", Digits[(k % 10) + 1]>>]
FileSizes == {4, 5, 11}
FileSystems ==
    UNION {[paths -> {FileOf(n) : n \in FileSizes}] : paths \in SUBSET {PathF, PathD}}

InitEnrich ==
    /\ \E n \in 0..MaxLines : lines \in [1..n -> EnrichLinePool]
    /\ fileSystem \in FileSystems
    /\ printed = <<>>
    /\ ParserIdle
    /\ RunIdle
    /\ RunUnused

\* this.enrichDiagnosticsWithSourceCode(diagnostics) after the loop over the
\* lines; a further run is the same call on the list it has already enriched
Enrich ==
    /\ pos = Len(lines)
    /\ enrichRuns < MaxEnrichRuns
    /\ diagnostics' = enrichDiagnosticsWithSourceCode(diagnostics, fileSystem)
    /\ enrichRuns' = enrichRuns + 1
    /\ reads' = pathsOf(diagnostics)
    /\ UNCHANGED <<lines, pos, currentDiagnostic, matchedWarnings, invalidSeverities,
                   printed, fileSystem, poolVars, callVars, envVars>>

NextEnrich ==
    \/ ParseLine
    \/ Enrich

SpecEnrich == InitEnrich /\ [][NextEnrich]_vars

\* ---------------------------------------------------------------------
\* The argument builder: one call of buildArguments
\* ---------------------------------------------------------------------
WorkspaceRoot == <<"/", "w">>
CheckA == <<"a", "-", "*">>
CheckB == <<"b">>
FilterA == <<".", "*">>
FilterB == <<"s", "r", "c">>
ExtraX == <<"-", "x">>
ExtraY == <<"-", "-", "y">>
ExtraZ == <<"-", "z">>
CompileCommands == <<"/", "w", "/", "b">>
FileCpp == <<"a", ".", "c", "p", "p">>
FileH == <<"b", ".", "h">>
FileUpper == <<"a", ".", "H", "X", "X">>
FileTxt == <<"a", ".", "h", ".", "t", "x", "t">>
FileHidden == <<"d", "/", ".", "c", "c">>
FileNoExt == <<"d", ".", "c", "/", "m", "k">>
FilePool == {FileCpp, FileH, FileUpper, FileTxt, FileHidden, FileNoExt}

\* the run options of a call: checks and headerFilter absent or given,
\* extraArgs absent, empty or given
OptionsPool ==
    [checks : {<<>>, CheckA}, headerFilter : {<<>>, FilterA}, fix : BOOLEAN,
     extraArgs : {[given |-> FALSE, list |-> <<>>], [given |-> TRUE, list |-> <<>>],
                  [given |-> TRUE, list |-> <<ExtraX, ExtraY>>]}]

\* no folder open, a folder without .clang-tidy, a folder with it; the settings
WorldPool ==
    { w \in [workspaceRoot : {<<>>, WorkspaceRoot}, configExists : BOOLEAN,
             checks : {<<>>, CheckB}, headerFilter : {<<>>, FilterB},
             compileCommandsPath : {<<>>, CompileCommands},
             extraArgs : {<<>>, <<ExtraZ, ExtraX>>}] :
        emptyString(w.workspaceRoot) => ~w.configExists }

InitArgs ==
    /\ RunIdle
    /\ RunUnused
    /\ ParserIdle
    /\ ParserUnused

\* const args = this.buildArguments(files, options)
CallBuildArguments ==
    /\ ~buildInput.called
    /\ \E n \in 0..MaxArgFiles : \E fileList \in [1..n -> FilePool] :
       \E options \in OptionsPool : \E world \in WorldPool :
          /\ buildInput' = [called |-> TRUE, files |-> fileList,
                            options |-> options, world |-> world]
          /\ args' = buildArguments(fileList, options, world)
    /\ UNCHANGED <<reportData, poolVars, parserVars, envVars>>

NextArgs == CallBuildArguments

SpecArgs == InitArgs /\ [][NextArgs]_vars

\* ---------------------------------------------------------------------
\* The report: the text is parsed, enriched, and the report data prepared
\* ---------------------------------------------------------------------
HeaderSecondRule == <<"/", "f", ":", "5", ":", "9", ":", " ", "e", "r", "r", "o", "r", ":", " ", "m", " ", "[", "s", "]">>
ReportLinePool == {HeaderWithRule, HeaderSecondRule, HeaderNoRule, HeaderLineZero, CodeLine}

InitReport ==
    /\ \E n \in 0..MaxLines : lines \in [1..n -> ReportLinePool]
    /\ fileSystem = NoFiles
    /\ printed = <<>>
    /\ ParserIdle
    /\ RunIdle
    /\ RunUnused

\* const reportData = prepareReportData(diagnostics, files.length), reached
\* when parseClangTidyText returned a non-empty list
PrepareReport ==
    /\ pos = Len(lines)
    /\ enrichRuns >= 1
    /\ Len(diagnostics) > 0
    /\ ~reportData.built
    /\ \E totalFiles \in 1..MaxFiles :
          reportData' = prepareReportData(diagnostics, totalFiles)
    /\ UNCHANGED <<buildInput, args, poolVars, parserVars, envVars>>

NextReport ==
    \/ ParseLine
    \/ Enrich
    \/ PrepareReport

SpecReport == InitReport /\ [][NextReport]_vars

\* ---------------------------------------------------------------------
\* Header round trip: one header line printed from its fields, then parsed
\* ---------------------------------------------------------------------
\* decimal digits of a number n >= 0
RECURSIVE toDigits(_)
toDigits(n) ==
    IF n < 10 THEN <<Digits[n + 1]>>
    ELSE toDigits(n \div 10) \o <<Digits[(n % 10) + 1]>>

\* <path>:<line>:<column>: <severity>: <message> [<rule>]
formatHeader(h) ==
    h.filePath \o <<":">> \o toDigits(h.line) \o <<":">> \o toDigits(h.column)
    \o <<":", " ">> \o h.severity \o <<":", " ">> \o h.message
    \o (IF h.checkName = <<>> THEN <<>> ELSE <<" ", "[">> \o h.checkName[1] \o <<"]">>)

PosixPath == <<"/", "p", "/", "f", ".", "c">>
WindowsPath == <<"D", ":", "\\", "p", "\\", "f", ".", "c">>
UnknownSeverity == <<"o", "d", "d", "i", "t", "y">>
RuleName == <<"r", "-", "x">>
MessageChars == {"m", " ", "["}
Messages ==
    {msg \in UNION {[1..n -> MessageChars] : n \in 1..MaxMessage} :
        ~IsSpace(msg[1]) /\ ~IsSpace(msg[Len(msg)])}

HeaderFields ==
    [filePath : {PosixPath, WindowsPath},
     line : 1..MaxNumber,
     column : {1, MaxNumber},
     severity : validSeverities \cup {UnknownSeverity},
     message : Messages,
     checkName : {<<>>, <<RuleName>>}]

InitHeader ==
    /\ \E h \in HeaderFields :
          /\ printed = <<h>>
          /\ fileSystem = NoFiles
          /\ lines = <<formatHeader(h)>>
    /\ ParserIdle
    /\ RunIdle
    /\ RunUnused

SpecHeader == InitHeader /\ [][NextParser]_vars


\* =====================================================================
\* Properties
\* =====================================================================
PoolReturned == pc \in {"returned", "mapped", "done"}
Finished(i) == ended[i] # NoEvent
FinishedTasks == {i \in DOMAIN tasks \cap DOMAIN ended : Finished(i)}
RECURSIVE Flatten(_)
Flatten(ss) == IF Len(ss) = 0 THEN <<>> ELSE Head(ss) \o Flatten(Tail(ss))

\* C1: the array executeParallel returns is aligned with its input, result[i]
\* being what the process of task i produced, and so the ParallelResult at
\* index i of runParallel carries the output of the process run on batches[i].
ResultsAlignedWithTasks ==
    /\ PoolReturned =>
          /\ Len(returned) = Len(tasks)
          /\ \A i \in 1..Len(tasks) : returned[i] = outcome[i]
    /\ pc \in {"mapped", "done"} =>
          \A i \in 1..Len(parallelResults) :
              /\ parallelResults[i].files = batches[i]
              /\ tasks[i].args = batches[i]
              /\ parallelResults[i].rawOutput = outcome[i].stdout
              /\ parallelResults[i].errorOutput = outcome[i].stderr
              /\ parallelResults[i].exitCode = outcome[i].exitCode

\* C2: every task is taken by exactly one worker and run once, and when
\* executeParallel returns there is one result per task and none was skipped.
EveryTaskRunOnce ==
    /\ \A j, k \in 1..Len(started) : j # k => started[j] # started[k]
    /\ \A v, w \in DOMAIN workers :
          (v # w /\ workers[v].state = "awaiting" /\ workers[w].state = "awaiting")
              => workers[v].task # workers[w].task
    /\ Len(results) = Cardinality(FinishedTasks)
    /\ PoolReturned =>
          /\ Len(returned) = Len(tasks)
          /\ Len(started) = Len(tasks)
          /\ \A i \in 1..Len(tasks) : Finished(i) /\ tasks[i] \in Range(started)
          /\ queue = <<>>

\* a return of a pool in which a worker had to loop (more tasks than workers)
EveryTaskRunOnceWitness ==
    /\ pc = "returned"
    /\ Len(tasks) = MaxTasks
    /\ maxWorkers < MaxTasks
    /\ Len(returned) = MaxTasks

\* C3: a rejected executeCommand is recorded as a result with a non-zero exit
\* code, empty stdout and the error text as stderr, and every other task of the
\* call is still run and has its own result recorded.
FailureIsolated ==
    /\ \A i \in FinishedTasks :
          ended[i].kind = "error" =>
              /\ outcome[i].exitCode # 0
              /\ outcome[i].stdout = <<>>
              /\ outcome[i].stderr = ended[i].stderr
              /\ outcome[i] \in Range(results)
    /\ (PoolReturned /\ \E i \in 1..Len(tasks) : ended[i].kind = "error") =>
          /\ Len(returned) = Len(tasks)
          /\ \A j \in 1..Len(tasks) :
                /\ Finished(j)
                /\ outcome[j] \in Range(returned)
                /\ ended[j].kind = "close" =>
                      /\ outcome[j].stdout = ended[j].stdout
                      /\ outcome[j].stderr = ended[j].stderr
                      /\ outcome[j].exitCode =
                            (IF ended[j].exitCode = <<>> THEN 0 ELSE ended[j].exitCode[1])

\* the first task failed to start and the others, run after it, produced output
FailureIsolatedWitness ==
    /\ pc = "returned"
    /\ Len(tasks) = MaxTasks
    /\ ended[1].kind = "error"
    /\ returned[1].stderr = SpawnErrorMessage
    /\ \A j \in 2..Len(tasks) : ended[j].kind = "close" /\ outcome[j].stdout = DiagText

\* C4: onProgress is called once per finished task, in the step in which the
\* task finishes (by close or by error), with total = the number of tasks and
\* completed = 1, 2, ..., total.
ProgressOncePerTask ==
    /\ Len(progress) = Cardinality(FinishedTasks)
    /\ Len(progress) = Len(results)
    /\ \A k \in 1..Len(progress) : progress[k] = <<k, Len(tasks)>>
    /\ PoolReturned => Len(progress) = Len(tasks)

\* a finished pool in which one task failed and the others did not
ProgressOncePerTaskWitness ==
    /\ pc = "returned"
    /\ Len(tasks) = MaxTasks
    /\ ended[2].kind = "error"
    /\ ended[1].kind = "close"
    /\ Len(progress) = MaxTasks

\* C5: executeParallel creates exactly min(maxWorkers, number of tasks) workers,
\* never more than that many children are alive at once, and with the worker
\* limit of getParallelJobs that number is at most 8.
WorkersBounded ==
    pc # "init" =>
        /\ Len(workers) = Min(maxWorkers, Len(tasks))
        /\ Alive(workers) <= Min(maxWorkers, Len(tasks))
        /\ peak <= Min(maxWorkers, Len(tasks))
        /\ entry \in {"runParallel", "runClangTidyAnalysis"} =>
              /\ maxWorkers <= 8
              /\ peak <= 8

\* a run whose configured job count is above the cap and above the task count
WorkersBoundedWitness ==
    /\ entry = "runParallel"
    /\ ~parallelJobs.auto /\ parallelJobs.value > 8
    /\ pc = "returned"
    /\ maxWorkers = 8
    /\ Len(tasks) = MaxFiles
    /\ peak = MaxFiles

\* ceil(n / j) stated without division: the least k with k * j >= n
CeilingOf(n, j) == CHOOSE k \in 0..n : k * j >= n /\ \A m \in 0..n : m * j >= n => k <= m

\* C6: for N >= 1 files and J >= 1 jobs the batches of runParallel are non-empty,
\* all of size ceil(N/J) but the last, which may be shorter, and their
\* concatenation in order is the input list.
BatchesPartitionFiles ==
    (pc # "init" /\ entry = "runParallel") =>
        /\ Flatten(batches) = files
        /\ \A b \in 1..Len(batches) :
              /\ Len(batches[b]) >= 1
              /\ Len(batches[b]) <= CeilingOf(Len(files), maxWorkers)
              /\ b < Len(batches) => Len(batches[b]) = CeilingOf(Len(files), maxWorkers)

\* a split whose last batch is shorter than the others
BatchesPartitionFilesWitness ==
    /\ pc = "pool"
    /\ Len(files) = MaxBatchFiles
    /\ Len(batches) >= 3
    /\ Len(batches[1]) >= 2
    /\ Len(batches[Len(batches)]) < Len(batches[1])

\* C7: a run that ends with a non-zero exit status while no invocation wrote
\* anything to stdout surfaces the analysis-failed error (and then neither
\* parses nor reports), on the single path and on the parallel path.
NoOutputIsFailure ==
    (/\ pc = "done"
     /\ result.exitCode # 0
     /\ \A i \in DOMAIN ended : ended[i].stdout = <<>>)
        => shown = "analysisFailed"

\* C8 as stated: exit code 0 with empty stdout is surfaced as a failure.
ZeroExitEmptyIsFailure ==
    (/\ pc = "done"
     /\ \A i \in DOMAIN ended :
           ended[i].kind = "close" /\ ended[i].exitCode = <<0>> /\ ended[i].stdout = <<>>)
        => shown = "analysisFailed"

\* C8 amended: exit code 0 with empty stdout is surfaced as "no issues found",
\* the success outcome, and never as a failure.
ZeroExitEmptyIsNoFindings ==
    (/\ pc = "done"
     /\ \A i \in DOMAIN ended :
           ended[i].kind = "close" /\ ended[i].exitCode = <<0>> /\ ended[i].stdout = <<>>)
        => shown = "noIssuesFound"

\* the single invocation exited with 0 and printed nothing
ZeroExitEmptyWitness ==
    /\ pc = "done"
    /\ Len(files) = 1
    /\ ended = <<[kind |-> "close", exitCode |-> <<0>>, stdout |-> NoText, stderr |-> NoText]>>
    /\ result.exitCode = 0
    /\ shown = "noIssuesFound"

\* C9: a header line with a known severity starts a new Diagnostic, which
\* becomes the current one, whatever the state of the parser before the line.
KnownHeaders == {HeaderWithRule, HeaderNoRule}
HeaderStartsNewDiagnostic ==
    [][(pos' = pos + 1 /\ lines[pos + 1] \in KnownHeaders) =>
          /\ Len(diagnostics') = Len(diagnostics) + 1
          /\ SubSeq(diagnostics', 1, Len(diagnostics)) = diagnostics
          /\ currentDiagnostic' = Len(diagnostics')
          /\ diagnostics'[Len(diagnostics')].codeLineFull = <<>>
          /\ diagnostics'[Len(diagnostics')].severity \in validSeverities]_vars

\* a header parsed right after an unrecognized line of the previous diagnostic
\* that followed a context line
HeaderStartsNewDiagnosticWitness ==
    /\ lines = <<HeaderWithRule, CodeLine, SnippetLine>> \o <<HeaderNoRule>>
       \/ lines = <<HeaderWithRule, SnippetLine, HeaderNoRule>>
    /\ pos = Len(lines)
    /\ Len(diagnostics) = 2
    /\ currentDiagnostic = 2
    /\ diagnostics[2].filePath = <<"D", ":", "\\", "f">>

\* C10: a header line parses to a Diagnostic whose fields are the values the
\* line was printed from, and to an empty rule identifier when it has no rule
\* suffix.
HeaderRoundTrip ==
    (pos = 1 /\ Len(printed) = 1 /\ printed[1].severity \in validSeverities) =>
        /\ Len(diagnostics) = 1
        /\ diagnostics[1].filePath = printed[1].filePath
        /\ diagnostics[1].line = printed[1].line
        /\ diagnostics[1].column = printed[1].column
        /\ diagnostics[1].severity = printed[1].severity
        /\ diagnostics[1].message = printed[1].message
        /\ diagnostics[1].checkName =
              (IF printed[1].checkName = <<>> THEN <<>> ELSE printed[1].checkName[1])

\* The round trip does hold for every header whose message has no "[" after
\* white space.
BracketAfterSpace(msg) == \E k \in 2..Len(msg) : msg[k] = "[" /\ IsSpace(msg[k - 1])
HeaderRoundTripPlainMessage ==
    (pos = 1 /\ Len(printed) = 1 /\ printed[1].severity \in validSeverities
     /\ ~BracketAfterSpace(printed[1].message)) =>
        /\ Len(diagnostics) = 1
        /\ diagnostics[1].filePath = printed[1].filePath
        /\ diagnostics[1].line = printed[1].line
        /\ diagnostics[1].column = printed[1].column
        /\ diagnostics[1].severity = printed[1].severity
        /\ diagnostics[1].message = printed[1].message
        /\ diagnostics[1].checkName =
              (IF printed[1].checkName = <<>> THEN <<>> ELSE printed[1].checkName[1])


\* ---------------------------------------------- continuation lines of the parser
\* The shapes of lines, in the words of the text format
AllSpace(str, a, b) == \A k \in a..b : IsSpace(str[k])
AllDigits(str, a, b) == \A k \in a..b : IsDigit(str[k])
BlankShape(line) == AllSpace(line, 1, Len(line))
\* white space of any width, a line number, white space, a pipe
SourceContextShape(line) ==
    \E w \in 1..Len(line) : \E d \in (w + 1)..Len(line) : \E b \in (d + 1)..Len(line) :
        /\ AllSpace(line, 1, w)
        /\ AllDigits(line, w + 1, d)
        /\ AllSpace(line, d + 1, b - 1)
        /\ line[b] = "|"
\* white space, then a pipe, no line number
ContinuationShape(line) ==
    \E b \in 2..Len(line) : AllSpace(line, 1, b - 1) /\ line[b] = "|"
HasMarker(line) == \E k \in 1..Len(line) : line[k] \in {"^", "~"}
HeaderShaped == KnownHeaders \cup {HeaderOddity}
\* the text after the first pipe of a line
AfterFirstPipe(line) ==
    LET b == CHOOSE k \in 1..Len(line) : line[k] = "|" /\ \A m \in 1..(k - 1) : line[m] # "|"
    IN  SubSeq(line, b + 1, Len(line))
LineStep == pos' = pos + 1
NextLine == lines[pos + 1]
InDiagnostic == currentDiagnostic # 0
OthersUnchanged ==
    /\ Len(diagnostics') = Len(diagnostics)
    /\ \A i \in 1..Len(diagnostics) : i # currentDiagnostic => diagnostics'[i] = diagnostics[i]

BlankLineIdles ==
    [][LineStep =>
          /\ BlankShape(NextLine) => (currentDiagnostic' = 0 /\ diagnostics' = diagnostics)
          /\ (~InDiagnostic /\ NextLine \notin KnownHeaders) =>
                (currentDiagnostic' = 0 /\ diagnostics' = diagnostics)]_vars

\* a code line after a blank line after a header: it is not attached
BlankLineIdlesWitness ==
    /\ lines = <<HeaderWithRule, SpacesLine, CodeLine>>
    /\ pos = 3
    /\ currentDiagnostic = 0
    /\ Len(diagnostics) = 1
    /\ diagnostics[1].codeLineFull = <<>>

\* C13: while IN_DIAGNOSTIC, a line of the source-context shape (white space of
\* any width, a line number of any length, a pipe) becomes the source-context
\* line of the current diagnostic and the parser stays IN_DIAGNOSTIC.
SourceContextClassified ==
    [][(LineStep /\ InDiagnostic /\ SourceContextShape(NextLine)) =>
          /\ currentDiagnostic' = currentDiagnostic
          /\ Len(diagnostics') = Len(diagnostics)
          /\ diagnostics'[currentDiagnostic].codeLineFull # <<>>]_vars

\* C14: the source-line text set from a source-context line is everything after
\* the pipe that follows the line number (compared up to surrounding white
\* space), also when the source text holds pipes.
SourceTextAfterSeparator ==
    [][(LineStep /\ InDiagnostic /\ isCodeLine(NextLine)) =>
          /\ diagnostics'[currentDiagnostic].codeLineFull # <<>>
          /\ trim(diagnostics'[currentDiagnostic].codeLineFull[1])
                = trim(AfterFirstPipe(NextLine))]_vars

\* C15: while IN_DIAGNOSTIC, a continuation line holding a caret or a tilde is
\* stored as the position indicator and not added to the fix suggestion; one
\* holding neither is not stored as the position indicator.
MarkerLineIsIndicator ==
    [][(LineStep /\ InDiagnostic /\ ContinuationShape(NextLine)) =>
          IF HasMarker(NextLine)
          THEN /\ diagnostics'[currentDiagnostic].caretLine = <<NextLine>>
               /\ diagnostics'[currentDiagnostic].fixSuggestion
                     = diagnostics[currentDiagnostic].fixSuggestion
          ELSE diagnostics'[currentDiagnostic].caretLine
                     = diagnostics[currentDiagnostic].caretLine]_vars

\* C16: the fix suggestion of a diagnostic only ever grows, by the line being
\* parsed joined with a newline after the text it had; a fix line of the current
\* diagnostic is appended so; two fix lines end up joined in input order.
PlainFixLines == {FixLine, FixLineNext}
FixLinesAccumulate ==
    [][LineStep =>
          /\ \A i \in 1..Len(diagnostics) :
                \/ diagnostics'[i].fixSuggestion = diagnostics[i].fixSuggestion
                \/ /\ i = currentDiagnostic
                   /\ diagnostics'[i].fixSuggestion =
                         (IF diagnostics[i].fixSuggestion = <<>>
                          THEN <<NextLine>>
                          ELSE <<diagnostics[i].fixSuggestion[1] \o <<"\n">> \o NextLine>>)
          /\ (InDiagnostic /\ NextLine \in PlainFixLines) =>
                diagnostics'[currentDiagnostic].fixSuggestion
                    # diagnostics[currentDiagnostic].fixSuggestion
          /\ \A a, b \in PlainFixLines :
                (lines = <<HeaderWithRule, a, b>> /\ pos' = 3) =>
                    diagnostics'[1].fixSuggestion = <<a \o <<"\n">> \o b>>]_vars

\* two different fix lines after the caret line of a diagnostic
FixLinesAccumulateWitness ==
    /\ lines = <<HeaderWithRule, FixLineNext, FixLine>>
    /\ pos = 3
    /\ currentDiagnostic = 1
    /\ diagnostics[1].fixSuggestion = <<FixLineNext \o <<"\n">> \o FixLine>>

\* C17: while IN_DIAGNOSTIC, a non-blank line that is no header, no
\* source-context line and no continuation line returns the parser to IDLE and
\* creates and modifies no Diagnostic; a text without any header-shaped line
\* gives no Diagnostic.
OtherLineIdles ==
    [][LineStep =>
          /\ (/\ InDiagnostic
              /\ ~BlankShape(NextLine)
              /\ NextLine \notin HeaderShaped
              /\ ~SourceContextShape(NextLine)
              /\ ~ContinuationShape(NextLine)) =>
                (currentDiagnostic' = 0 /\ diagnostics' = diagnostics)
          /\ (\A k \in 1..Len(lines) : lines[k] \notin HeaderShaped) => diagnostics' = <<>>]_vars

\* a continuation line after an unrecognized line after a header: not attached
OtherLineIdlesWitness ==
    /\ lines = <<HeaderNoRule, SnippetLine, CaretLine>>
    /\ pos = 3
    /\ currentDiagnostic = 0
    /\ Len(diagnostics) = 1
    /\ diagnostics[1].caretLine = <<>>


\* ------------------------------------------------------- source enrichment
EnrichStep == enrichRuns' = enrichRuns + 1
Readable(filePath) == filePath \in DOMAIN fileSystem
WithinFile(d) == 1 <= d.line /\ d.line <= Len(fileSystem[d.filePath])
Spaces(n) == [k \in 1..n |-> " "]

\* C18: enrichment never changes a source line or a position indicator the
\* diagnostic already has, leaves a diagnostic that has both as it is, and a
\* further run over the enriched list changes nothing.
EnrichmentKeepsCaptured ==
    [][EnrichStep =>
          /\ Len(diagnostics') = Len(diagnostics)
          /\ \A i \in 1..Len(diagnostics) :
                /\ diagnostics[i].codeLineFull # <<>> =>
                      diagnostics'[i].codeLineFull = diagnostics[i].codeLineFull
                /\ diagnostics[i].caretLine # <<>> =>
                      diagnostics'[i].caretLine = diagnostics[i].caretLine
                /\ (diagnostics[i].codeLineFull # <<>> /\ diagnostics[i].caretLine # <<>>) =>
                      diagnostics'[i] = diagnostics[i]
          /\ enrichRuns >= 1 => diagnostics' = diagnostics]_vars

\* run twice over a diagnostic whose source line came from the tool output and
\* whose position indicator came from the file
EnrichmentKeepsCapturedWitness ==
    /\ lines = <<HeaderWithRule, CodeLine>>
    /\ Readable(PathF) /\ Len(fileSystem[PathF]) > 5
    /\ enrichRuns = 2
    /\ diagnostics[1].codeLineFull = <<<<"x">>>>
    /\ diagnostics[1].caretLine = <<Spaces(8) \o <<"^">>>>

\* C19: a diagnostic without context whose file is read gets, when its line L
\* is within the file, the file's line L (index L - 1 from 0) as source line
\* and column - 1 spaces followed by one caret as position indicator; when L is
\* outside the file it is left as it is.
EnrichmentFromFile ==
    [][EnrichStep =>
          \A i \in 1..Len(diagnostics) :
              (/\ diagnostics[i].codeLineFull = <<>>
               /\ diagnostics[i].caretLine = <<>>
               /\ Readable(diagnostics[i].filePath)) =>
                  IF WithinFile(diagnostics[i])
                  THEN diagnostics'[i] =
                          [diagnostics[i] EXCEPT
                              !.codeLineFull =
                                  <<fileSystem[diagnostics[i].filePath][diagnostics[i].line]>>,
                              !.caretLine = <<Spaces(diagnostics[i].column - 1) \o <<"^">>>>]
                  ELSE diagnostics'[i] = diagnostics[i]]_vars

\* one diagnostic within its file, one before its first line, one past the end
EnrichmentFromFileWitness ==
    /\ lines = <<HeaderLineZero, HeaderWithRule, HeaderNoRule>>
    /\ Readable(PathF) /\ Readable(PathD)
    /\ Len(fileSystem[PathF]) > 5 /\ Len(fileSystem[PathD]) < 10
    /\ enrichRuns = 1
    /\ diagnostics[1].codeLineFull = <<>> /\ diagnostics[1].caretLine = <<>>
    /\ diagnostics[2].codeLineFull = <<<<"c", "5">>>>
    /\ diagnostics[2].caretLine = <<Spaces(8) \o <<"^">>>>
    /\ diagnostics[3].codeLineFull = <<>> /\ diagnostics[3].caretLine = <<>>

\* C20: when a file cannot be read, its diagnostics keep exactly what they had,
\* the diagnostics of every file that can be read are still given their context,
\* whichever file comes first, and no diagnostic is lost.
ReadFailureSkipsOneFile ==
    [][EnrichStep =>
          /\ Len(diagnostics') = Len(diagnostics)
          /\ \A i \in 1..Len(diagnostics) :
                IF Readable(diagnostics[i].filePath)
                THEN WithinFile(diagnostics[i]) =>
                        /\ diagnostics'[i].codeLineFull # <<>>
                        /\ diagnostics'[i].caretLine # <<>>
                ELSE diagnostics'[i] = diagnostics[i]]_vars

\* the file of the first diagnostic cannot be read, the file of the second can
ReadFailureSkipsOneFileWitness ==
    /\ lines = <<HeaderNoRule, CaretLine, HeaderWithRule>>
    /\ ~Readable(PathD) /\ Readable(PathF) /\ Len(fileSystem[PathF]) > 5
    /\ enrichRuns = 1
    /\ diagnostics[1].codeLineFull = <<>>
    /\ diagnostics[1].caretLine = <<CaretLine>>
    /\ diagnostics[2].codeLineFull = <<<<"c", "5">>>>
    /\ diagnostics[2].caretLine # <<>>


\* C21: one run of the enrichment hands each distinct file path of the list to
\* the file read at most once (and hands it every path of the list), however
\* the diagnostics of the files are interleaved.
EachFileReadOnce ==
    enrichRuns >= 1 =>
        /\ \A j, k \in 1..Len(reads) : j # k => reads[j] # reads[k]
        /\ Range(reads) = {diagnostics[i].filePath : i \in 1..Len(diagnostics)}

\* two diagnostics of one file with a diagnostic of another file between them
EachFileReadOnceWitness ==
    /\ lines = <<HeaderWithRule, HeaderNoRule, HeaderLineZero>>
    /\ enrichRuns = 1
    /\ Len(diagnostics) = 3
    /\ reads = <<PathF, PathD>>

\* the identifying tuple of a diagnostic
IdentityOf(d) == <<d.filePath, d.line, d.column, d.checkName>>

\* C22: no two Diagnostics of one parse share the tuple (file path, line,
\* column, rule identifier).
DiagnosticsUnique ==
    \A i, j \in 1..Len(diagnostics) :
        i # j => IdentityOf(diagnostics[i]) # IdentityOf(diagnostics[j])

\* C23: parsing the empty text gives an empty Diagnostic list: its only line is
\* blank, nothing is matched and nothing is created.
EmptyTextNoDiagnostics ==
    /\ parseClangTidyText(<<>>) = <<>>
    /\ (lines = split(<<>>, "\n") /\ pos = Len(lines)) =>
          /\ diagnostics = <<>>
          /\ currentDiagnostic = 0
          /\ matchedWarnings = 0
          /\ invalidSeverities = 0

\* the one line of the empty text has been processed
EmptyTextNoDiagnosticsWitness ==
    /\ lines = <<BlankLine>>
    /\ lines = split(<<>>, "\n")
    /\ pos = 1
    /\ diagnostics = <<>>


\* ---- the argument vector ---------------------------------------------
\* the arguments of the vector that start with the flag literal
FlagPositions(flag) == {i \in 1..Len(args) : args[i] # <<>> /\ Head(args[i]) = flag}

\* a rule-configuration file exists in the project root of the call
ConfigFileInRoot ==
    buildInput.world.workspaceRoot # <<>> /\ buildInput.world.configExists

\* the run option's checks, else the configured checks, else "*"
ChecksOfCall ==
    IF buildInput.options.checks # <<>> THEN buildInput.options.checks
    ELSE IF buildInput.world.checks # <<>> THEN buildInput.world.checks
    ELSE <<"*">>

\* the filter the user configured, in the run options or in the settings
FilterOfCall ==
    IF buildInput.options.headerFilter # <<>> THEN buildInput.options.headerFilter
    ELSE buildInput.world.headerFilter

\* the extra arguments of the call: the run option's list when one is given,
\* the configured list otherwise
ExtrasOfCall ==
    IF buildInput.options.extraArgs.given THEN buildInput.options.extraArgs.list
    ELSE buildInput.world.extraArgs

\* C24: every argument vector holds exactly one selector: the --config-file
\* pointer to <root>/.clang-tidy and no -checks flag when that file exists,
\* whatever checks are configured, and otherwise one -checks flag whose value
\* is the run option's checks, else the configured checks, else "*" (the extra
\* arguments of the user being no selectors themselves).
ExactlyOneSelector ==
    buildInput.called =>
        /\ Cardinality(FlagPositions("--config-file=") \cup FlagPositions("-checks=")) = 1
        /\ ConfigFileInRoot =>
              /\ FlagPositions("-checks=") = {}
              /\ args[1] = <<"--config-file=">> \o buildInput.world.workspaceRoot
                               \o <<"/", ".clang-tidy">>
        /\ ~ConfigFileInRoot =>
              /\ FlagPositions("--config-file=") = {}
              /\ args[1] = <<"-checks=">> \o ChecksOfCall

\* a configuration file in the root while checks are given and configured
ExactlyOneSelectorWitness ==
    /\ buildInput.called
    /\ ConfigFileInRoot
    /\ buildInput.options.checks = CheckA
    /\ buildInput.world.checks = CheckB
    /\ args[1] = <<"--config-file=", "/", "w", "/", ".clang-tidy">>
    /\ Len(args) >= 2

\* C25 as stated: -header-filter is present iff a filter was configured (with
\* that value) or no rule-configuration file exists (with the project root as
\* value).
HeaderFilterIffFilterOrNoConfig ==
    buildInput.called =>
        /\ FlagPositions("-header-filter=") # {}
              <=> (FilterOfCall # <<>> \/ ~ConfigFileInRoot)
        /\ \A i \in FlagPositions("-header-filter=") :
              args[i] = <<"-header-filter=">>
                  \o (IF FilterOfCall # <<>> THEN FilterOfCall
                      ELSE buildInput.world.workspaceRoot)

\* C25: -header-filter is present, once, iff a filter was configured (with that
\* value) or a project root is open and holds no rule-configuration file (with
\* the root path as value); it is omitted when the file exists and no filter
\* was configured, and when no filter was configured and no project is open.
HeaderFilterIffFilterOrRootWithoutConfig ==
    buildInput.called =>
        /\ FlagPositions("-header-filter=") # {}
              <=> \/ FilterOfCall # <<>>
                  \/ buildInput.world.workspaceRoot # <<>> /\ ~ConfigFileInRoot
        /\ Cardinality(FlagPositions("-header-filter=")) <= 1
        /\ \A i \in FlagPositions("-header-filter=") :
              args[i] = <<"-header-filter=">>
                  \o (IF FilterOfCall # <<>> THEN FilterOfCall
                      ELSE buildInput.world.workspaceRoot)

\* no project open and no filter configured: the flag is left out
HeaderFilterWitness ==
    /\ buildInput.called
    /\ buildInput.world.workspaceRoot = <<>>
    /\ FilterOfCall = <<>>
    /\ FlagPositions("-header-filter=") = {}
    /\ args[1] = <<"-checks=", "*">>

\* the flags buildArguments computes
ComputedFlags == {"--config-file=", "-checks=", "-header-filter=", "-fix", "-p="}

\* the file has a recognized extension: its last path component ends, after at
\* least one other character, in one of the eight extensions, case ignored
Recognized(file) ==
    \E ext \in cppExtensions :
        /\ Len(file) > Len(ext)
        /\ toLowerCase(SubSeq(file, Len(file) - Len(ext) + 1, Len(file))) = ext
        /\ file[Len(file) - Len(ext)] # "/"

\* the number of recognized files among the first n of the call
RECURSIVE RecognizedCount(_)
RecognizedCount(n) ==
    IF n = 0 THEN 0
    ELSE RecognizedCount(n - 1) + (IF Recognized(buildInput.files[n]) THEN 1 ELSE 0)

\* C26: the vector is the computed flags, then the extra arguments verbatim
\* and in their order, then the positional files: no computed flag follows an
\* extra argument and nothing follows the files.
ExtrasBetweenFlagsAndFiles ==
    buildInput.called =>
        \E c \in 0..Len(args) :
            /\ \A i \in 1..c : Head(args[i]) \in ComputedFlags
            /\ c + Len(ExtrasOfCall) <= Len(args)
            /\ SubSeq(args, c + 1, c + Len(ExtrasOfCall)) = ExtrasOfCall
            /\ \A i \in (c + Len(ExtrasOfCall) + 1)..Len(args) :
                  /\ args[i] \in Range(buildInput.files)
                  /\ Head(args[i]) \notin ComputedFlags
            /\ \A f \in {"--config-file=", "-checks=", "-header-filter=", "-p="} :
                  \A i \in FlagPositions(f) : i <= c

\* all five computed flags, two extra arguments and two files
ExtrasBetweenFlagsAndFilesWitness ==
    /\ buildInput.called
    /\ Len(args) = 8
    /\ Head(args[2]) = "-header-filter="
    /\ args[3] = <<"-fix">>
    /\ Head(args[4]) = "-p="
    /\ SubSeq(args, 5, 6) = <<ExtraX, ExtraY>>
    /\ SubSeq(args, 7, 8) = <<FileH, FileCpp>>

\* C27: the positional arguments are the recognized files of the batch, each
\* once and in batch order; no other file is passed, no recognized one dropped.
PositionalsAreRecognizedFiles ==
    buildInput.called =>
        /\ Len(args) >= RecognizedCount(Len(buildInput.files))
        /\ \A n \in 1..Len(buildInput.files) :
              Recognized(buildInput.files[n]) =>
                  args[Len(args) - RecognizedCount(Len(buildInput.files))
                       + RecognizedCount(n)] = buildInput.files[n]
        /\ \A i \in 1..(Len(args) - RecognizedCount(Len(buildInput.files))) :
              \/ Head(args[i]) \in ComputedFlags
              \/ args[i] \in Range(ExtrasOfCall)

\* an upper-case extension is kept, a file with another extension is dropped
PositionalsAreRecognizedFilesWitness ==
    /\ buildInput.called
    /\ buildInput.files = <<FileTxt, FileUpper>>
    /\ args[Len(args)] = FileUpper
    /\ FileTxt \notin Range(args)


\* ---- the effective job count -------------------------------------------
\* C28: the job count runParallel gets from getParallelJobs is an integer in
\* 1..8 for every configured value: 'auto' gives min(host cores, 8), a number
\* below 1 gives 1, a number above 8 gives 8 (and a number in 1..8 itself).
JobCountWithinOneAndEight ==
    /\ \A cfg \in AllJobSettings : \A n \in 1..MaxHostCores :
          getParallelJobs(cfg, n) \in 1..8
    /\ pc # "init" =>
          /\ maxWorkers \in 1..8
          /\ parallelJobs.auto => maxWorkers = (IF cpus < 8 THEN cpus ELSE 8)
          /\ (~parallelJobs.auto /\ parallelJobs.value < 1) => maxWorkers = 1
          /\ (~parallelJobs.auto /\ parallelJobs.value > 8) => maxWorkers = 8
          /\ (~parallelJobs.auto /\ parallelJobs.value \in 1..8) =>
                maxWorkers = parallelJobs.value

\* a configured number above the cap
JobCountWithinOneAndEightWitness ==
    /\ pc # "init"
    /\ ~parallelJobs.auto
    /\ parallelJobs.value = 9
    /\ maxWorkers = 8

\* 'auto' on a host with more than eight cores
JobCountAutoWitness ==
    /\ pc # "init"
    /\ parallelJobs.auto
    /\ cpus = 9
    /\ maxWorkers = 8


\* ---- executeCommand ------------------------------------------------------
\* C29: executeCommand rejects when the executable cannot be started, and a
\* process that starts and exits with a non-zero code is no failure: the
\* promise resolves with a result carrying that code, its stdout and its
\* stderr, and this is what the task ends with.
SpawnFailureRejectsNonZeroExitResolves ==
    /\ \A ev \in ErrorEvents :
          executeCommand(ev).rejected /\ executeCommand(ev).error = ev.stderr
    /\ \A i \in FinishedTasks :
          /\ ended[i].kind = "error" =>
                /\ executeCommand(ended[i]).rejected
                /\ outcome[i] = CaughtResult(ended[i].stderr)
          /\ (ended[i].kind = "close" /\ ended[i].exitCode \notin {<<>>, <<0>>}) =>
                /\ ~executeCommand(ended[i]).rejected
                /\ executeCommand(ended[i]).value =
                       [stdout |-> ended[i].stdout, stderr |-> ended[i].stderr,
                        exitCode |-> ended[i].exitCode[1]]
                /\ outcome[i] = executeCommand(ended[i]).value

\* one task ended with exit code 2 and output, another could not be started
SpawnFailureRejectsNonZeroExitResolvesWitness ==
    \E i, j \in FinishedTasks :
        /\ ended[i].kind = "close"
        /\ ended[i].exitCode = <<2>>
        /\ outcome[i] = [stdout |-> DiagText, stderr |-> ErrText, exitCode |-> 2]
        /\ ended[j].kind = "error"
        /\ outcome[j].exitCode = 1


\* ---- the report data -----------------------------------------------------
\* the sum of the counts of a counts-by-rule table over the rule names in S
RECURSIVE SumOfCounts(_, _)
SumOfCounts(counts, S) ==
    IF S = {} THEN 0
    ELSE SumOfCounts(counts, S \ {CHOOSE k \in S : TRUE}) + counts[CHOOSE k \in S : TRUE]

\* the diagnostics of the list that belong to the file path, in list order
OfFile(diags, path) ==
    LET Belongs(d) == d.filePath = path IN SelectSeq(diags, Belongs)

\* totalWarnings is the list length; the groups have distinct paths, each
\* holds the diagnostics of its path in list order, and every path of the list
\* has its group; filesWithWarnings is the number of distinct paths
ReportGroupsAndTotals(report) ==
    /\ report.totalWarnings = Len(report.diagnostics)
    /\ \A g, h \in 1..Len(report.files) :
          g # h => report.files[g].filePath # report.files[h].filePath
    /\ \A g \in 1..Len(report.files) :
          /\ report.files[g].diagnostics # <<>>
          /\ report.files[g].diagnostics
                = OfFile(report.diagnostics, report.files[g].filePath)
    /\ {report.files[g].filePath : g \in 1..Len(report.files)}
          = {report.diagnostics[i].filePath : i \in 1..Len(report.diagnostics)}
    /\ report.filesWithWarnings
          = Cardinality({report.diagnostics[i].filePath : i \in 1..Len(report.diagnostics)})

\* the diagnostics of the report that carry a rule identifier
WithRule(report) ==
    {i \in 1..Len(report.diagnostics) : report.diagnostics[i].checkName # <<>>}

\* C30 as stated: the report data is derived from the list, and the counts by
\* rule sum to the number of diagnostics.
ReportCountsSumToAll ==
    reportData.built =>
        /\ reportData.diagnostics = diagnostics
        /\ ReportGroupsAndTotals(reportData)
        /\ SumOfCounts(reportData.warningsByChecker, DOMAIN reportData.warningsByChecker)
              = Len(reportData.diagnostics)

\* C30: the report data is derived from the list: totalWarnings is its length,
\* the per-file groups partition it in list order, filesWithWarnings is the
\* number of distinct file paths, and the counts by rule count, rule by rule,
\* the diagnostics that carry a rule identifier: they sum to the number of
\* those (parseReportData alone also counts the others, under the empty name).
ReportCountsSumToRuled ==
    /\ reportData.built =>
          /\ reportData.diagnostics = diagnostics
          /\ ReportGroupsAndTotals(reportData)
          /\ <<>> \notin DOMAIN reportData.warningsByChecker
          /\ \A name \in DOMAIN reportData.warningsByChecker :
                reportData.warningsByChecker[name]
                    = Cardinality({i \in WithRule(reportData) :
                                      reportData.diagnostics[i].checkName = name})
          /\ SumOfCounts(reportData.warningsByChecker, DOMAIN reportData.warningsByChecker)
                = Cardinality(WithRule(reportData))
    /\ enrichRuns >= 1 =>
          /\ ReportGroupsAndTotals(parseReportData(diagnostics))
          /\ SumOfCounts(parseReportData(diagnostics).warningsByChecker,
                         DOMAIN parseReportData(diagnostics).warningsByChecker)
                = Len(diagnostics)

\* two files interleaved, one diagnostic without a rule identifier
ReportCountsSumToRuledWitness ==
    /\ reportData.built
    /\ lines = <<HeaderWithRule, HeaderNoRule, HeaderSecondRule>>
    /\ reportData.totalWarnings = 3
    /\ reportData.filesWithWarnings = 2
    /\ Len(reportData.files[1].diagnostics) = 2
    /\ SumOfCounts(reportData.warningsByChecker, DOMAIN reportData.warningsByChecker) = 2


\* ---- the pool and its children -------------------------------------------
\* the positions of the tasks that have been dequeued and started
StartedTasks == {i \in DOMAIN tasks : tasks[i] \in Range(started)}

\* the worker is blocked on a child process that never terminates
BlockedOnHung(w) ==
    /\ w \in DOMAIN workers
    /\ workers[w].state = "awaiting"
    /\ TaskPosition(workers[w].task) \in hung

\* C31: the pool has no timeout and no cancellation.  When the child of one
\* task never terminates, executeParallel never returns, the worker that took
\* that task stays blocked on it forever, and every other task that is
\* dequeued still ends, has its result recorded and its progress reported.
HungChildBlocksForever ==
    /\ [](hung # {} => ~PoolReturned)
    /\ [][\A w \in 1..MaxWorkers : BlockedOnHung(w) => BlockedOnHung(w)']_vars
    /\ \A i \in 1..MaxTasks :
          (hung # {} /\ i \in StartedTasks /\ i \notin hung)
              ~> (/\ i \in FinishedTasks
                  /\ outcome[i] \in Range(results)
                  /\ Len(progress) = Len(results))
    /\ \A i \in 1..MaxTasks :
          (i \in hung /\ pc = "pool") ~> (\E w \in 1..MaxWorkers : BlockedOnHung(w))

\* the first task hangs while the other worker has run all the other tasks
HungChildBlocksForeverWitness ==
    /\ hung = {1}
    /\ pc = "pool"
    /\ Len(tasks) = MaxTasks
    /\ BlockedOnHung(1)
    /\ queue = <<>>
    /\ completedTasks = MaxTasks - 1
    /\ Len(progress) = MaxTasks - 1

\* C32: when every child process eventually terminates, executeParallel
\* eventually returns, with no task or with more tasks than workers, and at its
\* return the queue is empty and completedTasks is the number of tasks.
PoolEventuallyReturns ==
    /\ (hung = {} /\ pc \in {"init", "pool"}) ~> (pc = "returned")
    /\ []((hung = {} /\ PoolReturned) =>
            /\ queue = <<>>
            /\ completedTasks = Len(tasks)
            /\ Len(returned) = Len(tasks))

\* a return of a pool without tasks
PoolEventuallyReturnsWitness ==
    /\ hung = {}
    /\ pc = "returned"
    /\ tasks = <<>>
    /\ workers = <<>>
    /\ completedTasks = 0

\* a return of a pool with more tasks than workers
PoolReturnsAfterLoopWitness ==
    /\ hung = {}
    /\ pc = "returned"
    /\ Len(tasks) = MaxTasks
    /\ maxWorkers = 1
    /\ completedTasks = MaxTasks


\* C33: the tasks leave the shared queue in input order: what has been started
\* is a prefix of the input list and the queue is the rest of it, so no task is
\* dequeued twice or before an earlier one; and the index a worker computed for
\* the task it holds is that task's position in the input list (from 0).
QueueIsFifo ==
    pc # "init" =>
        /\ Len(started) <= Len(tasks)
        /\ started = SubSeq(tasks, 1, Len(started))
        /\ queue = SubSeq(tasks, Len(started) + 1, Len(tasks))
        /\ \A w \in DOMAIN workers :
              workers[w].state = "awaiting" =>
                  /\ workers[w].taskIndex \in 0..(Len(tasks) - 1)
                  /\ tasks[workers[w].taskIndex + 1] = workers[w].task
                  /\ workers[w].task \in Range(started)
        /\ \A v, w \in DOMAIN workers :
              (v # w /\ workers[v].state = "awaiting" /\ workers[w].state = "awaiting")
                  => workers[v].taskIndex # workers[w].taskIndex

\* the second worker has gone round its loop and holds the last task while the
\* first worker still waits for the first task
QueueIsFifoWitness ==
    /\ pc = "pool"
    /\ Len(tasks) = MaxTasks
    /\ Len(workers) = 2
    /\ workers[1].state = "awaiting" /\ workers[1].taskIndex = 0
    /\ workers[2].state = "awaiting" /\ workers[2].taskIndex = MaxTasks - 1
    /\ queue = <<>>


\* C34: in runParallel the number of batches, and so of tasks, is at most the
\* job count J handed to the pool as its worker limit (ceil(N / ceil(N / J))
\* <= J): every task has a worker of its own, is started at once, and the
\* queue is empty as soon as the pool has started.
BatchesWithinJobCount ==
    /\ \A n \in 1..MaxBatchFiles : \A j \in 1..8 :
          /\ CeilingOf(n, CeilingOf(n, j)) <= j
          /\ Len(batchesOf(FileList(n), j)) = CeilingOf(n, CeilingOf(n, j))
    /\ (pc = "pool" /\ entry = "runParallel" /\ completedTasks = 0) =>
          /\ maxWorkers \in 1..8
          /\ Len(tasks) = Len(batches)
          /\ Len(tasks) <= maxWorkers
          /\ Len(workers) = Len(tasks)
          /\ started = tasks
          /\ queue = <<>>
          /\ \A i \in 1..Len(tasks) :
                \E w \in DOMAIN workers : workers[w].taskIndex = i - 1

\* as many batches as jobs, the last batch shorter than the others
BatchesWithinJobCountWitness ==
    /\ pc = "pool"
    /\ entry = "runParallel"
    /\ Len(files) = MaxBatchFiles
    /\ maxWorkers = 4
    /\ Len(tasks) = 4
    /\ Alive(workers) = 4
    /\ queue = <<>>


\* ---- the line pass: rejected headers, frame, counts ----------------------
\* the last header-shaped line processed was rejected for its severity
AfterRejectedHeader ==
    \E h \in 1..pos :
        /\ lines[h] = HeaderOddity
        /\ \A k \in (h + 1)..pos : lines[k] \notin HeaderShaped

\* C35: a header rejected for unknown severity leaves the parser in IDLE, not
\* attached to the diagnostic emitted before it: the rejected line and every
\* source-context, position-indicator and fix-suggestion line after it, up to
\* the next accepted header, change no Diagnostic.
RejectedHeaderIdles ==
    [][LineStep =>
          /\ NextLine = HeaderOddity =>
                (currentDiagnostic' = 0 /\ diagnostics' = diagnostics)
          /\ (AfterRejectedHeader /\ NextLine \notin KnownHeaders) =>
                (currentDiagnostic = 0 /\ currentDiagnostic' = 0
                 /\ diagnostics' = diagnostics)]_vars

\* a source-context line right after a rejected header that follows a diagnostic
RejectedHeaderIdlesWitness ==
    /\ lines = <<HeaderWithRule, HeaderOddity, CodeLine>>
    /\ pos = 3
    /\ Len(diagnostics) = 1
    /\ diagnostics[1].codeLineFull = <<>>
    /\ currentDiagnostic = 0

\* C36: a line only ever changes the most recently emitted Diagnostic, and
\* only while the parser is attached to it: every earlier Diagnostic, and the
\* last one once the parser is in IDLE, is the same after the line, and no
\* Diagnostic is removed.
OnlyLatestDiagnosticChanges ==
    /\ [](currentDiagnostic \in {0, Len(diagnostics)})
    /\ [][LineStep =>
             /\ Len(diagnostics') >= Len(diagnostics)
             /\ \A i \in 1..Len(diagnostics) :
                   (i < Len(diagnostics) \/ currentDiagnostic = 0)
                       => diagnostics'[i] = diagnostics[i]]_vars

\* a context line after a second header: it went to the second Diagnostic
OnlyLatestDiagnosticChangesWitness ==
    /\ lines = <<HeaderWithRule, HeaderNoRule, CodeLine>>
    /\ pos = 3
    /\ Len(diagnostics) = 2
    /\ diagnostics[1].codeLineFull = <<>>
    /\ diagnostics[2].codeLineFull # <<>>

\* the accepted header lines among the lines processed so far, in input order
IsKnownHeader(line) == line \in KnownHeaders
AcceptedHeaders == SelectSeq(SubSeq(lines, 1, pos), IsKnownHeader)

\* C37: after every processed line the header-matching lines seen are as many
\* as the Diagnostics emitted plus the headers dropped for their severity, and
\* the Diagnostics are in the list in the order of their header lines.
HeadersCountedAndOrdered ==
    /\ matchedWarnings = Cardinality({k \in 1..pos : lines[k] \in HeaderShaped})
    /\ matchedWarnings = Cardinality({k \in 1..pos : matchWarning(lines[k]).matched})
    /\ matchedWarnings = Len(diagnostics) + invalidSeverities
    /\ Len(diagnostics) = Len(AcceptedHeaders)
    /\ \A i \in 1..Len(diagnostics) :
          IF AcceptedHeaders[i] = HeaderWithRule
          THEN /\ diagnostics[i].filePath = <<"/", "f">>
               /\ diagnostics[i].line = 5
               /\ diagnostics[i].checkName = <<"r">>
          ELSE /\ diagnostics[i].filePath = <<"D", ":", "\\", "f">>
               /\ diagnostics[i].line = 10
               /\ diagnostics[i].checkName = <<>>

\* two accepted headers of different files around a dropped one
HeadersCountedAndOrderedWitness ==
    /\ lines = <<HeaderNoRule, HeaderOddity, HeaderWithRule>>
    /\ pos = 3
    /\ matchedWarnings = 3
    /\ invalidSeverities = 1
    /\ diagnostics[1].line = 10
    /\ diagnostics[2].line = 5


\* ---- exit codes ------------------------------------------------------------
\* C38: the exit code of a result of executeCommand is the exit code of the
\* child when it has one; a child that closed without an exit code (ended by a
\* signal) is reported with exit code 0, as a successful exit is.
ExitCodeOfChildOrZero ==
    /\ \A ev \in CloseEvents :
          /\ ~executeCommand(ev).rejected
          /\ ev.exitCode # <<>> => executeCommand(ev).value.exitCode = ev.exitCode[1]
          /\ ev.exitCode = <<>> => executeCommand(ev).value.exitCode = 0
    /\ \A i \in FinishedTasks :
          ended[i].kind = "close" =>
              /\ ended[i].exitCode # <<>> => outcome[i].exitCode = ended[i].exitCode[1]
              /\ ended[i].exitCode = <<>> => outcome[i].exitCode = 0

\* one child ended by a signal, one exited with 0: the same exit code in both
\* results; a third exited with 1
ExitCodeOfChildOrZeroWitness ==
    /\ pc = "returned"
    /\ Len(tasks) = MaxTasks
    /\ ended[1].kind = "close" /\ ended[1].exitCode = <<>>
    /\ ended[2].kind = "close" /\ ended[2].exitCode = <<0>>
    /\ ended[3].kind = "close" /\ ended[3].exitCode = <<1>>
    /\ outcome[1].exitCode = 0
    /\ outcome[2].exitCode = 0
    /\ outcome[3].exitCode = 1


====
